---- MODULE Spec2Model ----
(***************************************************************************)
(* A model of the wavy realtime relay (backend/server.js): the canvas-room *)
(* registry and its durable Room collection, the typing-room state machine *)
(* (join, update, leaderboard, leave), typing voice presence and the       *)
(* signalling relays.  Strings are sequences of one-character strings, so  *)
(* trimming, upper-casing and per-character scoring are computed.          *)
(***************************************************************************)
EXTENDS Integers, Sequences, FiniteSets, TLC

\* ------------------------------------------------------------------ bounds
\* How many Room documents / typing rooms the create routes may make in a run.
MaxCreates == 2
\* How many times the wall clock advances in a run.
MaxTicks == 2
\* How many async handlers may be awaiting the store at once.
MaxInFlight == 2

\* ------------------------------------------------------- program constants
MIN_USERNAME_LENGTH == 3
MAX_USERNAME_LENGTH == 15
TYPING_TIME_LIMIT_SECONDS == 60
TYPING_TIME_LIMIT_MS == TYPING_TIME_LIMIT_SECONDS * 1000
ROOM_ID_LENGTH == 8
\* rawValue.slice(0, text.length + 200)
INPUT_SLACK == 200
\* lengthDelta >= 10, payload.delta >= 10
PASTE_MIN_DELTA == 10
\* timeDelta < 400
PASTE_WINDOW_MS == 400
\* charsPerSecond > 15
MAX_CHARS_PER_SECOND == 15
\* createUniqueRoomId(attempts = 5)
CREATE_ATTEMPTS == 5

\* ----------------------------------------------------------------- strings
LOWER == <<"a","b","c","d","e","f","g","h","i","j","k","l","m",
           "n","o","p","q","r","s","t","u","v","w","x","y","z">>
UPPER == <<"A","B","C","D","E","F","G","H","I","J","K","L","M",
           "N","O","P","Q","R","S","T","U","V","W","X","Y","Z">>
DIGITS == <<"0","1","2","3","4","5","6","7","8","9">>

Range(s) == { s[i] : i \in 1..Len(s) }

\* The connections (socket ids) of a run.
Conns == {"s1", "s2"}

\* String.prototype.toUpperCase, one character.
UpperOf == [ch \in Range(LOWER) |-> UPPER[CHOOSE i \in 1..Len(LOWER) : LOWER[i] = ch]]
toUpperCaseChar(ch) == IF ch \in DOMAIN UpperOf THEN UpperOf[ch] ELSE ch

toUpperCase(s) == [i \in 1..Len(s) |-> toUpperCaseChar(s[i])]

RECURSIVE trimStart(_)
trimStart(s) == IF s # <<>> /\ Head(s) = " " THEN trimStart(Tail(s)) ELSE s

RECURSIVE trimEnd(_)
trimEnd(s) ==
    IF s # <<>> /\ s[Len(s)] = " " THEN trimEnd(SubSeq(s, 1, Len(s) - 1)) ELSE s

\* String.prototype.trim
trim(s) == trimEnd(trimStart(s))

\* (roomId || '').trim().toUpperCase(); the empty string stands for a missing id.
normalizeRoomId(roomId) == toUpperCase(trim(roomId))

\* Room ids the generator can return in a run: two of the ALPHABET^8 codes.
idA == [i \in 1..ROOM_ID_LENGTH |-> "A"]
idB == [i \in 1..ROOM_ID_LENGTH |-> "B"]
generateRoomId == {idA, idB}

\* Room ids clients send: none, blanks, a padded lower-case spelling of idA,
\* idB as generated, and a well-formed code no room has.
RawRoomIds ==
    { <<>>, <<" ">>, <<" ">> \o [i \in 1..ROOM_ID_LENGTH |-> "a"] \o <<" ">>, idB,
      [i \in 1..ROOM_ID_LENGTH |-> "Z"] }

\* ---------------------------------------------------------------- JS Maps
\* Map.get: the empty sequence stands for undefined (both are falsy).
MapGet(m, k) == IF k \in DOMAIN m THEN m[k] ELSE <<>>
MapSet(m, k, v) == [x \in (DOMAIN m) \cup {k} |-> IF x = k THEN v ELSE m[x]]
MapDelete(m, k) == [x \in (DOMAIN m) \ {k} |-> m[x]]
EmptyMap == [x \in {} |-> <<>>]

\* An insertion-ordered Map keyed by socketId, as the sequence of its values.
Has(seq, id) == \E i \in 1..Len(seq) : seq[i].socketId = id
IndexOf(seq, id) == CHOOSE i \in 1..Len(seq) : seq[i].socketId = id
Get(seq, id) == seq[IndexOf(seq, id)]
\* Map.set keeps the position of a key that is already present.
Put(seq, v) ==
    IF Has(seq, v.socketId)
    THEN [seq EXCEPT ![IndexOf(seq, v.socketId)] = v]
    ELSE Append(seq, v)
Remove(seq, id) == SelectSeq(seq, LAMBDA e : e.socketId # id)

\* Array.prototype.filter on an array of ids.
Without(ids, id) == SelectSeq(ids, LAMBDA e : e # id)
\* $push in the place of $addToSet: the id is appended even when it is there.
Push(ids, id) == Append(ids, id)
\* $addToSet
AddToSet(ids, id) == IF id \in Range(ids) THEN ids ELSE Append(ids, id)

VARIABLES
    connected,            \* the live sockets
    ioRooms,              \* socket.io room membership: socket -> set of channels
    dbRooms,              \* the Room collection: roomId -> [oid, users]
    created,              \* documents and typing rooms created so far
    socketRoomMap,        \* server.js:57
    typingSocketRoomMap,  \* server.js:58
    typingRooms,          \* store/typingRooms.js:2
    tasks,                \* async handlers awaiting the store
    now,                  \* Date.now()
    ticks,                \* clock advances so far
    out,                  \* what the last step emitted: <<[ev, to, ...]>>
    last,                 \* the event the last step handled
    joined,               \* history: the canvas room each connection is a member of
    scPrompt, scTyped, scResult  \* inputs and result of the pure-function checks

vars == <<connected, ioRooms, dbRooms, created, socketRoomMap, typingSocketRoomMap,
          typingRooms, tasks, now, ticks, out, last, joined,
          scPrompt, scTyped, scResult>>

canvasVars == <<dbRooms, socketRoomMap, tasks, joined>>
typingVars == <<typingSocketRoomMap, typingRooms>>
clockVars == <<now, ticks>>
scVars == <<scPrompt, scTyped, scResult>>

\* ------------------------------------------------------------- socket.io
Canvas(roomId) == <<"canvas", roomId>>
Typing(roomId) == <<"typing", roomId>>

\* io.to(channel): every live socket in the channel.
InRoom(io, conn, channel) == { c \in conn : channel \in io[c] }
\* io.emit(ev, ...) in the place of socket.emit: every live socket hears it.
EmitEveryone(conn, c, ev, body) == [ev |-> ev, to |-> conn, from |-> c, body |-> body]
\* socket.emit(ev, ...)
EmitSelf(conn, c, ev, body) == [ev |-> ev, to |-> {c} \cap conn, from |-> c, body |-> body]
\* socket.to(channel).emit(ev, ...): the channel except the sender.
EmitOthers(io, conn, c, channel, ev, body) ==
    [ev |-> ev, to |-> InRoom(io, conn, channel) \ {c}, from |-> c, body |-> body]
\* io.to(channel).emit(ev, ...)
EmitAll(io, conn, c, channel, ev, body) ==
    [ev |-> ev, to |-> InRoom(io, conn, channel), from |-> c, body |-> body]
\* io.to(targetId).emit(ev, ...): every socket is alone in the channel of its id.
EmitTarget(conn, c, targetId, ev, body) ==
    [ev |-> ev, to |-> {targetId} \cap conn, from |-> c, body |-> body]

SocketJoin(io, c, channel) == [io EXCEPT ![c] = @ \cup {channel}]
SocketLeave(io, c, channel) == [io EXCEPT ![c] = @ \ {channel}]

\* ------------------------------------------------------------ typing store
\* The prompt pool of a run (data/typingTexts stands behind getRandomText).
typingTexts == { <<"c","a","t">> }

getTypingRoom(rooms, roomId) == MapGet(rooms, roomId)
HasTypingRoom(rooms, roomId) == roomId \in DOMAIN rooms
deleteTypingRoom(rooms, roomId) == MapDelete(rooms, roomId)
\* typingRooms.set(roomId, room): an existing room under that id is replaced.
createTypingRoom(rooms, roomId, text) ==
    MapSet(rooms, roomId, [text |-> text, users |-> <<>>, voiceParticipants |-> <<>>])

\* --------------------------------------------------------------- usernames
USERNAME_PATTERN == Range(LOWER) \cup Range(UPPER) \cup Range(DIGITS) \cup {" ", "_", "-"}

\* A validation that measures the name before trimming it.
sanitizeUsernameUntrimmed(rawUsername) ==
    LET trimmed == trim(rawUsername) IN
    IF Len(rawUsername) < MIN_USERNAME_LENGTH \/ Len(rawUsername) > MAX_USERNAME_LENGTH
    THEN <<>>
    ELSE IF ~(Range(trimmed) \subseteq USERNAME_PATTERN) THEN <<>> ELSE trimmed

\* The empty sequence stands for null.
sanitizeUsername(rawUsername) ==
    LET trimmed == trim(rawUsername) IN
    IF Len(trimmed) < MIN_USERNAME_LENGTH \/ Len(trimmed) > MAX_USERNAME_LENGTH
    THEN <<>>
    ELSE IF ~(Range(trimmed) \subseteq USERNAME_PATTERN) THEN <<>> ELSE trimmed

\* String.prototype.localeCompare for the allow-listed characters: first by the
\* letters regardless of case (blank and punctuation before digits before
\* letters), then lower case before upper case.
COLLATION == <<" ", "_", "-">> \o DIGITS \o LOWER
PrimaryRank(ch) ==
    LET l == IF \E i \in 1..Len(UPPER) : UPPER[i] = ch
             THEN LOWER[CHOOSE i \in 1..Len(UPPER) : UPPER[i] = ch] ELSE ch
    IN IF \E i \in 1..Len(COLLATION) : COLLATION[i] = l
       THEN CHOOSE i \in 1..Len(COLLATION) : COLLATION[i] = l
       ELSE Len(COLLATION) + 1
CaseRank(ch) == IF ch \in Range(UPPER) THEN 1 ELSE 0

\* The rank a character has at the given comparison level.
Rank(primary, ch) == IF primary THEN PrimaryRank(ch) ELSE CaseRank(ch)

RECURSIVE CompareBy(_, _, _)
CompareBy(primary, a, b) ==
    IF a = <<>> /\ b = <<>> THEN 0
    ELSE IF a = <<>> THEN -1
    ELSE IF b = <<>> THEN 1
    ELSE IF Rank(primary, Head(a)) # Rank(primary, Head(b))
         THEN Rank(primary, Head(a)) - Rank(primary, Head(b))
    ELSE CompareBy(primary, Tail(a), Tail(b))

localeCompare(a, b) ==
    IF CompareBy(TRUE, a, b) # 0
    THEN CompareBy(TRUE, a, b)
    ELSE CompareBy(FALSE, a, b)

\* ----------------------------------------------------------------- scoring
\* A loop body that does not charge the characters typed beyond the prompt.
ScoreStepNoOverrun(target, typed, i) ==
    IF i > Len(target) THEN [score |-> 0, correctChars |-> 0]
    ELSE IF typed[i] = target[i] THEN [score |-> 1, correctChars |-> 1]
    ELSE [score |-> -1, correctChars |-> 0]

\* One pass of the loop body of computeScore at (1-based) index i: what it adds
\* to score and to correctChars.
ScoreStep(target, typed, i) ==
    IF i > Len(target) THEN [score |-> -1, correctChars |-> 0]
    ELSE IF typed[i] = target[i] THEN [score |-> 1, correctChars |-> 1]
    ELSE [score |-> -1, correctChars |-> 0]

RECURSIVE ScoreLoop(_, _, _, _)
\* The loop over indices lo..hi; the range is halved so that a clamped input of
\* text.length + 200 characters is summed without deep nesting.
ScoreLoop(target, typed, lo, hi) ==
    IF lo > hi THEN [score |-> 0, correctChars |-> 0]
    ELSE IF lo = hi THEN ScoreStep(target, typed, lo)
    ELSE LET mid == (lo + hi) \div 2
             a == ScoreLoop(target, typed, lo, mid)
             b == ScoreLoop(target, typed, mid + 1, hi)
         IN [score |-> a.score + b.score, correctChars |-> a.correctChars + b.correctChars]

computeScore(referenceText, inputValue) ==
    LET r == ScoreLoop(referenceText, inputValue, 1, Len(inputValue)) IN
    [score |-> r.score, correctChars |-> r.correctChars, typedLength |-> Len(inputValue)]

\* A flagging that pushes the reason without looking for it in the list.
flagUserEveryTime(user, reason) ==
    [user EXCEPT !.flags = Append(@, reason), !.isFlagged = TRUE]

flagUser(user, reason) ==
    [user EXCEPT !.flags = IF reason \in Range(@) THEN @ ELSE Append(@, reason),
                 !.isFlagged = TRUE]

\* ------------------------------------------------------------- leaderboard
LeaderboardRow(user) ==
    [socketId |-> user.socketId, username |-> user.username, score |-> user.score,
     isCompleted |-> user.isCompleted, completionTime |-> user.completionTime,
     flags |-> user.flags, isFlagged |-> user.isFlagged, isTimeUp |-> user.isTimeUp,
     startedAt |-> user.startedAt, expiresAt |-> user.expiresAt]

\* The comparator handed to Array.prototype.sort; 0 stands for a null time.
compareRows(a, b) ==
    IF b.score # a.score THEN b.score - a.score
    ELSE IF a.completionTime # 0 /\ b.completionTime # 0
         THEN a.completionTime - b.completionTime
    ELSE IF a.completionTime # 0 THEN -1
    ELSE IF b.completionTime # 0 THEN 1
    ELSE localeCompare(a.username, b.username)

\* Array.prototype.sort is stable: x goes after every element not after it.
RECURSIVE InsertRow(_, _)
InsertRow(sorted, x) ==
    IF sorted = <<>> THEN <<x>>
    ELSE IF compareRows(sorted[Len(sorted)], x) <= 0 THEN Append(sorted, x)
    ELSE Append(InsertRow(SubSeq(sorted, 1, Len(sorted) - 1), x), sorted[Len(sorted)])

RECURSIVE SortRows(_)
SortRows(rows) ==
    IF rows = <<>> THEN <<>>
    ELSE InsertRow(SortRows(SubSeq(rows, 1, Len(rows) - 1)), rows[Len(rows)])

Leaderboard(room) == SortRows([i \in 1..Len(room.users) |-> LeaderboardRow(room.users[i])])

\* The two broadcasts of emitTypingRoomState, or nothing for an unknown room.
emitTypingRoomState(rooms, io, conn, roomId) ==
    IF ~HasTypingRoom(rooms, roomId) THEN <<>>
    ELSE << EmitAll(io, conn, "io", Typing(roomId), "typing-users-update",
                    [roomId |-> roomId, count |-> Len(rooms[roomId].users)]),
            EmitAll(io, conn, "io", Typing(roomId), "leaderboard-update",
                    [roomId |-> roomId, leaderboard |-> Leaderboard(rooms[roomId])]) >>

\* ------------------------------------------------------- typing room leave
resolveTypingContext(map, rooms, c, roomIdOverride) ==
    LET roomId == IF roomIdOverride # <<>> THEN roomIdOverride ELSE MapGet(map, c) IN
    IF roomId = <<>> \/ ~HasTypingRoom(rooms, roomId) THEN <<>> ELSE roomId

\* The state the synchronous typing handlers read and write:
\* S = [map: typingSocketRoomMap, rooms: typingRooms, io: ioRooms, out: emitted].
handleLeaveTypingVoice(S, conn, c, roomIdOverride, silent) ==
    LET roomId == resolveTypingContext(S.map, S.rooms, c, roomIdOverride) IN
    IF roomId = <<>> THEN S
    ELSE IF ~Has(S.rooms[roomId].voiceParticipants, c) THEN S
    ELSE [S EXCEPT
            !.rooms[roomId].voiceParticipants = Remove(@, c),
            !.out = Append(@,
                IF silent
                THEN EmitAll(S.io, conn, c, Typing(roomId), "voice-user-left", [socketId |-> c])
                ELSE EmitOthers(S.io, conn, c, Typing(roomId), "voice-user-left",
                                [socketId |-> c]))]

\* A leave that forgets to tell the members that stay.
handleLeaveTypingRoomQuiet(S, conn, c) ==
    LET roomId == MapGet(S.map, c) IN
    IF roomId = <<>> THEN S
    ELSE
      LET S1 == handleLeaveTypingVoice(S, conn, c, roomId, FALSE)
          S2 == [S1 EXCEPT !.map = MapDelete(@, c),
                           !.io = SocketLeave(@, c, Typing(roomId))]
      IN IF ~HasTypingRoom(S2.rooms, roomId) THEN S2
         ELSE
           LET S3 == [S2 EXCEPT !.rooms[roomId].users = Remove(@, c)] IN
           IF S3.rooms[roomId].users = <<>>
           THEN [S3 EXCEPT !.rooms = deleteTypingRoom(@, roomId)]
           ELSE S3

handleLeaveTypingRoom(S, conn, c) ==
    LET roomId == MapGet(S.map, c) IN
    IF roomId = <<>> THEN S
    ELSE
      LET S1 == handleLeaveTypingVoice(S, conn, c, roomId, FALSE)
          S2 == [S1 EXCEPT !.map = MapDelete(@, c),
                           !.io = SocketLeave(@, c, Typing(roomId))]
      IN IF ~HasTypingRoom(S2.rooms, roomId) THEN S2
         ELSE
           LET S3 == [S2 EXCEPT !.rooms[roomId].users = Remove(@, c)] IN
           IF S3.rooms[roomId].users = <<>>
           THEN [S3 EXCEPT !.rooms = deleteTypingRoom(@, roomId)]
           ELSE [S3 EXCEPT !.out = @ \o emitTypingRoomState(S3.rooms, S3.io, conn, roomId)]

TypingState == [map |-> typingSocketRoomMap, rooms |-> typingRooms, io |-> ioRooms,
                out |-> <<>>]

\* ------------------------------------------------------- typing room join
\* A join that writes a new record over the one the connection had.
NewParticipantOverwritten(c, username, existingUser, t) ==
    [socketId |-> c, username |-> username, score |-> 0, typedLength |-> 0,
     correctChars |-> 0, lastInputLength |-> 0, lastInputValue |-> <<>>,
     lastUpdateAt |-> t, isCompleted |-> FALSE, completionTime |-> 0, flags |-> <<>>,
     isFlagged |-> FALSE, startedAt |-> 0, expiresAt |-> 0, isTimeUp |-> FALSE]

NewParticipant(c, username, existingUser, t) ==
    LET fresh == existingUser = <<>> IN
    [socketId |-> c,
     username |-> username,
     score |-> IF fresh THEN 0 ELSE existingUser.score,
     typedLength |-> IF fresh THEN 0 ELSE existingUser.typedLength,
     correctChars |-> IF fresh THEN 0 ELSE existingUser.correctChars,
     lastInputLength |-> IF fresh THEN 0 ELSE existingUser.lastInputLength,
     lastInputValue |-> IF fresh THEN <<>> ELSE existingUser.lastInputValue,
     lastUpdateAt |-> t,
     isCompleted |-> IF fresh THEN FALSE ELSE existingUser.isCompleted,
     completionTime |-> IF fresh THEN 0 ELSE existingUser.completionTime,
     flags |-> IF fresh THEN <<>> ELSE existingUser.flags,
     isFlagged |-> IF fresh THEN FALSE ELSE existingUser.isFlagged,
     startedAt |-> IF fresh THEN 0 ELSE existingUser.startedAt,
     expiresAt |-> IF fresh THEN 0 ELSE existingUser.expiresAt,
     isTimeUp |-> IF fresh THEN FALSE ELSE existingUser.isTimeUp]

\* Names clients send: a valid one, a padded one, one that is too short.
RawUsernames == { <<"A","n","n">>, <<" ","b","o","b"," ">>, <<"B","o">> }

\* What the last step handled: the event, the connection it came from, the room
\* it resolved to, whether it was acted on, and a signal's targetId.
Handled(ev, c, roomId, ok) ==
    [ev |-> ev, c |-> c, roomId |-> roomId, ok |-> ok, target |-> ""]

JoinTypingRoom(c, rawRoomId, rawUsername) ==
    LET roomId == normalizeRoomId(rawRoomId)
        username == sanitizeUsername(rawUsername)
    IN
    /\ c \in connected
    /\ IF roomId = <<>>
       THEN /\ out' = <<EmitSelf(connected, c, "typing-room-error", "Room ID is required")>>
            /\ last' = Handled("join-typing-room", c, roomId, FALSE)
            /\ UNCHANGED <<typingVars, ioRooms>>
       ELSE IF ~HasTypingRoom(typingRooms, roomId)
       THEN /\ out' = <<EmitSelf(connected, c, "typing-room-error", "Typing room not found")>>
            /\ last' = Handled("join-typing-room", c, roomId, FALSE)
            /\ UNCHANGED <<typingVars, ioRooms>>
       ELSE IF username = <<>>
       THEN /\ out' = <<EmitSelf(connected, c, "typing-room-error", "Provide a valid name")>>
            /\ last' = Handled("join-typing-room", c, roomId, FALSE)
            /\ UNCHANGED <<typingVars, ioRooms>>
       ELSE
         LET room == typingRooms[roomId]
             existingUser == IF Has(room.users, c) THEN Get(room.users, c) ELSE <<>>
             rooms1 == [typingRooms EXCEPT ![roomId].users =
                            Put(@, NewParticipant(c, username, existingUser, now))]
             io1 == SocketJoin(ioRooms, c, Typing(roomId))
         IN /\ typingRooms' = rooms1
            /\ typingSocketRoomMap' = MapSet(typingSocketRoomMap, c, roomId)
            /\ ioRooms' = io1
            /\ out' = <<EmitSelf(connected, c, "typing-room-ready",
                          [roomId |-> roomId, text |-> room.text,
                           timeLimitSeconds |-> TYPING_TIME_LIMIT_SECONDS])>>
                      \o emitTypingRoomState(rooms1, io1, connected, roomId)
            /\ last' = Handled("join-typing-room", c, roomId, TRUE)
    /\ UNCHANGED <<connected, canvasVars, created, clockVars, scVars>>

LeaveTypingRoom(c) ==
    LET S == handleLeaveTypingRoom(TypingState, connected, c) IN
    /\ c \in connected
    /\ typingSocketRoomMap' = S.map
    /\ typingRooms' = S.rooms
    /\ ioRooms' = S.io
    /\ out' = S.out
    /\ last' = Handled("leave-typing-room", c, MapGet(typingSocketRoomMap, c),
                       MapGet(typingSocketRoomMap, c) # <<>>)
    /\ UNCHANGED <<connected, canvasVars, created, clockVars, scVars>>

\* POST /api/typing/create-room
CreateTypingRoom(roomId, text) ==
    /\ created < MaxCreates
    /\ created' = created + 1
    /\ typingRooms' = createTypingRoom(typingRooms, roomId, text)
    /\ out' = <<>>
    /\ last' = Handled("create-typing-room", "http", roomId, TRUE)
    /\ UNCHANGED <<connected, ioRooms, canvasVars, typingSocketRoomMap, clockVars, scVars>>

\* ----------------------------------------------------------- typing update
\* What clients type into a "cat" room: prefixes, a wrong letter, an extra
\* letter, a thirteen-character paste, and an input longer than the clamp.
TypedValues ==
    { <<"c">>, <<"c","a">>, <<"c","a","t">>, <<"c","a","p">>, <<"c","a","t","s">>,
      [i \in 1..13 |-> "x"],
      [i \in 1..(Len(<<"c","a","t">>) + INPUT_SLACK + 1) |-> "x"] }

Abs(n) == IF n < 0 THEN -n ELSE n

\* if (user.isCompleted || user.isTimeUp) return;
\* A terminal check that forgets the timed-out participants.
IsTerminalCompletedOnly(user) == user.isCompleted

IsTerminal(user) == user.isCompleted \/ user.isTimeUp

\* An input taken as it was sent, however long.
ClampNothing(text, rawValue) == rawValue

\* rawValue.slice(0, text.length + 200)
Clamp(text, rawValue) ==
    IF Len(rawValue) <= Len(text) + INPUT_SLACK THEN rawValue
    ELSE SubSeq(rawValue, 1, Len(text) + INPUT_SLACK)

\* A clock that every update starts again.
StartClockEveryUpdate(user, t) ==
    [user EXCEPT !.startedAt = t, !.expiresAt = t + TYPING_TIME_LIMIT_MS]

\* if (!user.startedAt) { startedAt = now; expiresAt = now + TYPING_TIME_LIMIT_MS }
StartClock(user, t) ==
    IF user.startedAt = 0
    THEN [user EXCEPT !.startedAt = t, !.expiresAt = t + TYPING_TIME_LIMIT_MS]
    ELSE user

\* A deadline test that lets the update made exactly at expiresAt through.
ExpiredAtStrictly(user, t) ==
    (IF user.expiresAt # 0 THEN user.expiresAt - t ELSE TYPING_TIME_LIMIT_MS) < 0

\* timeRemaining <= 0
ExpiredAt(user, t) ==
    (IF user.expiresAt # 0 THEN user.expiresAt - t ELSE TYPING_TIME_LIMIT_MS) <= 0

\* A paste test that trusts the client's hint alone and misses the bursts.
PasteDetectedByHintOnly(isPaste, lengthDelta, timeDelta) ==
    isPaste /\ lengthDelta >= PASTE_MIN_DELTA

PasteDetected(isPaste, lengthDelta, timeDelta) ==
    \/ isPaste /\ lengthDelta >= PASTE_MIN_DELTA
    \/ ~isPaste /\ lengthDelta >= PASTE_MIN_DELTA /\ timeDelta < PASTE_WINDOW_MS

RECURSIVE Pow2(_)
Pow2(n) == IF n = 0 THEN 1 ELSE 2 * Pow2(n - 1)

RECURSIVE Pow2Mod(_, _)
\* 2^n modulo m
Pow2Mod(n, m) == IF n = 0 THEN 1 % m ELSE (2 * Pow2Mod(n - 1, m)) % m

\* timeDelta / 1000 is a division of doubles and its result is a double: a
\* 53-bit integer Q times 2^-s.  The binary exponent j of the quotient has
\* 2^j <= timeDelta / 1000 < 2^(j+1), and s = 52 - j.
QuotientExponent(timeDelta) ==
    CHOOSE j \in -10..20 :
        IF j >= 0
        THEN 1000 * Pow2(j) <= timeDelta /\ timeDelta < 1000 * Pow2(j + 1)
        ELSE 1000 <= timeDelta * Pow2(-j) /\ timeDelta * Pow2(-j) < 2000

\* The remainder R of timeDelta * 2^s = 1000 * Q + R.  R is a multiple of 8, so
\* never 500: the quotient is rounded down to Q * 2^-s when R < 500 and up to
\* (Q + 1) * 2^-s otherwise.
QuotientRemainder(timeDelta) ==
    ((timeDelta % 1000) * Pow2Mod(52 - QuotientExponent(timeDelta), 1000)) % 1000

\* Math.abs(lengthDelta) / (timeDelta / 1000) > 15 in double arithmetic.  The
\* second division rounds to nearest, ties to even, and the doubles next to 15
\* are 2^-49 apart, so its result exceeds 15 exactly when the true quotient
\* absDelta / x exceeds 15 + 2^-50, x being the rounded timeDelta / 1000.  Off
\* the line absDelta * 1000 = 15 * timeDelta the roundings are too small to
\* change the comparison; on the line the result exceeds 15 when x was rounded
\* down by R * 2^-s / 1000 with R * (15 * 2^50 + 1) > timeDelta * 2^s.
CharsPerSecondExceeds(absDelta, timeDelta) ==
    IF absDelta * 1000 # MAX_CHARS_PER_SECOND * timeDelta
    THEN absDelta * 1000 > MAX_CHARS_PER_SECOND * timeDelta
    ELSE LET s == 52 - QuotientExponent(timeDelta)
             R == QuotientRemainder(timeDelta)
         IN /\ 0 < R
            /\ R < 500
            /\ MAX_CHARS_PER_SECOND * R * Pow2(IF s < 50 THEN 50 - s ELSE 0)
                  >= timeDelta * Pow2(IF s > 50 THEN s - 50 ELSE 0)

\* if (timeDelta && timeDelta > 0) { charsPerSecond = ...; if (charsPerSecond > 15) ... }
SpeedWarning(lengthDelta, timeDelta) ==
    timeDelta > 0 /\ CharsPerSecondExceeds(Abs(lengthDelta), timeDelta)

ExplicitPaste(delta) == delta >= PASTE_MIN_DELTA

\* A completion test without the guard on the prompt's length.
ReachesEndOfAnyPrompt(text, typedLength) == typedLength >= Len(text)

\* A completion test that wants the typed length to equal the prompt length.
ReachesEndExactly(text, typedLength) == typedLength = Len(text) /\ Len(text) > 0

\* A completion test that wants one character more than the prompt has.
ReachesEndBeyond(text, typedLength) == typedLength > Len(text) /\ Len(text) > 0

\* typedLength >= text.length && text.length > 0
ReachesEnd(text, typedLength) == typedLength >= Len(text) /\ Len(text) > 0

\* The participant after lines 302-352, for an update that is not ignored.
UpdatedUser(user, text, payload, t) ==
    LET safeValue == Clamp(text, payload.value)
        previousLength == user.lastInputLength
        u1 == StartClock(user, t)
        expiredThisUpdate == ExpiredAt(u1, t)
        lengthDelta == Len(safeValue) - previousLength
        timeDelta == t - user.lastUpdateAt
        u2 == IF PasteDetected(payload.isPaste, lengthDelta, timeDelta)
              THEN flagUser(u1, "paste-detected") ELSE u1
        u3 == IF SpeedWarning(lengthDelta, timeDelta)
              THEN flagUser(u2, "speed-warning") ELSE u2
        u4 == IF ExplicitPaste(payload.delta) THEN flagUser(u3, "paste-detected") ELSE u3
        r == computeScore(text, safeValue)
        u5 == [u4 EXCEPT !.score = r.score, !.correctChars = r.correctChars,
                         !.typedLength = r.typedLength, !.lastInputLength = r.typedLength,
                         !.lastInputValue = safeValue, !.lastUpdateAt = t]
        u6 == IF ~u5.isCompleted /\ ReachesEnd(text, r.typedLength)
              THEN [u5 EXCEPT !.isCompleted = TRUE, !.completionTime = t] ELSE u5
    IN IF expiredThisUpdate /\ ~u6.isTimeUp THEN [u6 EXCEPT !.isTimeUp = TRUE] ELSE u6

TypingUpdate(c, payload) ==
    LET roomId == MapGet(typingSocketRoomMap, c) IN
    /\ c \in connected
    /\ IF roomId = <<>>
       THEN /\ out' = <<>>
            /\ last' = Handled("typing-update", c, roomId, FALSE)
            /\ UNCHANGED typingVars
       ELSE IF ~HasTypingRoom(typingRooms, roomId)
       THEN /\ typingSocketRoomMap' = MapDelete(typingSocketRoomMap, c)
            /\ out' = <<>>
            /\ last' = Handled("typing-update", c, roomId, FALSE)
            /\ UNCHANGED typingRooms
       ELSE IF ~Has(typingRooms[roomId].users, c) \/ IsTerminal(Get(typingRooms[roomId].users, c))
       THEN /\ out' = <<>>
            /\ last' = Handled("typing-update", c, roomId, FALSE)
            /\ UNCHANGED typingVars
       ELSE
         LET room == typingRooms[roomId]
             user == Get(room.users, c)
             after == UpdatedUser(user, room.text, payload, now)
             rooms1 == [typingRooms EXCEPT ![roomId].users = Put(@, after)]
             finished == IF after.isCompleted /\ ~user.isCompleted
                         THEN <<EmitAll(ioRooms, connected, "io", Typing(roomId), "user-finished",
                                  [roomId |-> roomId, username |-> after.username,
                                   completionTime |-> now])>>
                         ELSE <<>>
             timeup == IF after.isTimeUp /\ ~user.isTimeUp
                       THEN << EmitSelf(connected, c, "typing-timeup",
                                  [roomId |-> roomId, username |-> after.username]),
                               EmitOthers(ioRooms, connected, c, Typing(roomId), "user-timeup",
                                  [roomId |-> roomId, username |-> after.username]) >>
                       ELSE <<>>
         IN /\ typingRooms' = rooms1
            /\ out' = finished \o timeup
                      \o emitTypingRoomState(rooms1, ioRooms, connected, roomId)
            /\ last' = Handled("typing-update", c, roomId, TRUE)
            /\ UNCHANGED typingSocketRoomMap
    /\ UNCHANGED <<connected, ioRooms, canvasVars, created, clockVars, scVars>>

\* A clock with a timer behind it that marks the participants whose deadline
\* has passed as timed out.
TickWithSweep(d) ==
    /\ ticks < MaxTicks
    /\ ticks' = ticks + 1
    /\ now' = now + d
    /\ typingRooms' =
          [r \in DOMAIN typingRooms |->
             [typingRooms[r] EXCEPT !.users =
                [i \in 1..Len(@) |->
                   IF ~IsTerminal(@[i]) /\ @[i].expiresAt # 0 /\ now + d >= @[i].expiresAt
                   THEN [@[i] EXCEPT !.isTimeUp = TRUE] ELSE @[i]]]]
    /\ out' = <<>>
    /\ last' = Handled("tick", "clock", <<>>, TRUE)
    /\ UNCHANGED <<connected, ioRooms, canvasVars, created, typingSocketRoomMap, scVars>>

\* Date.now() moves on: by 100 ms, or by the whole time limit.
Tick(d) ==
    /\ ticks < MaxTicks
    /\ ticks' = ticks + 1
    /\ now' = now + d
    /\ out' = <<>>
    /\ last' = Handled("tick", "clock", <<>>, TRUE)
    /\ UNCHANGED <<connected, ioRooms, canvasVars, created, typingVars, scVars>>

\* ------------------------------------------------------------ typing voice
JoinTypingVoice(c) ==
    LET roomId == resolveTypingContext(typingSocketRoomMap, typingRooms, c, <<>>) IN
    /\ c \in connected
    /\ IF roomId = <<>> \/ ~Has(typingRooms[roomId].users, c)
       THEN /\ out' = <<EmitSelf(connected, c, "voice-error",
                          "Join the typing room before enabling voice chat.")>>
            /\ last' = Handled("join-voice", c, roomId, FALSE)
            /\ UNCHANGED typingRooms
       ELSE
         LET room == typingRooms[roomId]
             user == Get(room.users, c)
             wasAlreadyPresent == Has(room.voiceParticipants, c)
             participants == Put(room.voiceParticipants,
                                 [socketId |-> c, username |-> user.username, joinedAt |-> now])
             peers == SelectSeq(participants, LAMBDA p : p.socketId # c)
         IN /\ typingRooms' = [typingRooms EXCEPT ![roomId].voiceParticipants = participants]
            /\ out' = <<EmitSelf(connected, c, "voice-participants",
                          [roomId |-> roomId, participants |-> peers])>>
                      \o (IF ~wasAlreadyPresent
                          THEN <<EmitOthers(ioRooms, connected, c, Typing(roomId),
                                   "voice-user-joined",
                                   [socketId |-> c, username |-> user.username])>>
                          ELSE <<>>)
            /\ last' = Handled("join-voice", c, roomId, TRUE)
    /\ UNCHANGED <<connected, ioRooms, canvasVars, created, typingSocketRoomMap,
                   clockVars, scVars>>

LeaveTypingVoice(c) ==
    LET S == handleLeaveTypingVoice(TypingState, connected, c, <<>>, FALSE) IN
    /\ c \in connected
    /\ typingRooms' = S.rooms
    /\ out' = S.out
    /\ last' = Handled("leave-voice", c, MapGet(typingSocketRoomMap, c), S.out # <<>>)
    /\ UNCHANGED <<connected, ioRooms, canvasVars, created, typingSocketRoomMap,
                   clockVars, scVars>>

\* The three signalling events and the payload field each carries.
TypingSignals == {"typing-voice-offer", "typing-voice-answer", "typing-voice-ice"}
CanvasSignals == {"offer", "answer", "ice-candidate"}

\* A relay check that looks at the sender's room only.
SameTypingRoomSenderOnly(map, c, targetId) ==
    MapGet(map, c) # <<>>

\* sourceRoomId && typingSocketRoomMap.get(targetId) === sourceRoomId
SameTypingRoom(map, c, targetId) ==
    MapGet(map, c) # <<>> /\ MapGet(map, targetId) = MapGet(map, c)

\* targetId is a socket id, or absent (the empty string).
forwardTypingVoiceSignal(c, eventName, targetId, signal) ==
    /\ c \in connected
    /\ out' = IF targetId = "" THEN <<>>
              ELSE IF ~SameTypingRoom(typingSocketRoomMap, c, targetId) THEN <<>>
              ELSE <<EmitTarget(connected, c, targetId, eventName,
                        [fromId |-> c, signal |-> signal])>>
    /\ last' = [Handled(eventName, c, MapGet(typingSocketRoomMap, c), TRUE)
                EXCEPT !.target = targetId]
    /\ UNCHANGED <<connected, ioRooms, canvasVars, created, typingVars, clockVars, scVars>>

\* socket.on('offer' | 'answer' | 'ice-candidate'): no room is consulted.
forwardCanvasSignal(c, eventName, targetId, signal) ==
    /\ c \in connected
    /\ out' = IF targetId = "" \/ signal = "" THEN <<>>
              ELSE <<EmitTarget(connected, c, targetId, eventName,
                        [fromId |-> c, signal |-> signal])>>
    /\ last' = [Handled(eventName, c, MapGet(socketRoomMap, c), TRUE)
                EXCEPT !.target = targetId]
    /\ UNCHANGED <<connected, ioRooms, canvasVars, created, typingVars, clockVars, scVars>>

\* draw, shape-draw, arrow-draw (forwardRoomEvent) and clear-canvas.
RoomEvents == {"draw", "shape-draw", "arrow-draw"}

\* Payloads of the drawing events: a stroke with no socketId of its own (the
\* empty string) and one that names another connection as its sender.
DrawPayloads == [stroke : {"line"}, socketId : {"", "s2"}]

\* socket.to(roomId).emit(eventName, { ...payload, socketId: socket.id })
forwardRoomEvent(c, eventName, payload) ==
    LET roomId == MapGet(socketRoomMap, c) IN
    /\ c \in connected
    /\ out' = IF roomId = <<>> THEN <<>>
              ELSE <<EmitOthers(ioRooms, connected, c, Canvas(roomId), eventName,
                        [payload EXCEPT !.socketId = c])>>
    /\ last' = Handled(eventName, c, roomId, roomId # <<>>)
    /\ UNCHANGED <<connected, ioRooms, canvasVars, created, typingVars, clockVars, scVars>>

\* socket.on('clear-canvas'): the payload is not forwarded.
clearCanvas(c) ==
    LET roomId == MapGet(socketRoomMap, c) IN
    /\ c \in connected
    /\ out' = IF roomId = <<>> THEN <<>>
              ELSE <<EmitOthers(ioRooms, connected, c, Canvas(roomId), "clear-canvas",
                        [roomId |-> roomId, socketId |-> c])>>
    /\ last' = Handled("clear-canvas", c, roomId, roomId # <<>>)
    /\ UNCHANGED <<connected, ioRooms, canvasVars, created, typingVars, clockVars, scVars>>

\* ------------------------------------------------------------ canvas rooms
\* An async handler awaiting the store: pc names the pending store call.
Task(kind, c, pc, room, target, oid, attempt) ==
    [kind |-> kind, c |-> c, pc |-> pc, room |-> room, target |-> target,
     oid |-> oid, attempt |-> attempt]

DropTask(i) == SubSeq(tasks, 1, i - 1) \o SubSeq(tasks, i + 1, Len(tasks))
ReplaceTask(i, t) == [tasks EXCEPT ![i] = t]

\* handleLeaveRoom up to the await in removeSocketFromRoom (lines 224-229, 152-158):
\* socket.leave, then socketRoomMap.delete, then the $pull is issued.
\* A removal that leaves the registry entry in place while the $pull is pending.
BeginLeaveKeepingBinding(kind, c, roomId, target) ==
    /\ ioRooms' = SocketLeave(ioRooms, c, Canvas(roomId))
    /\ UNCHANGED socketRoomMap
    /\ tasks' = Append(tasks, Task(kind, c, "pull", roomId, target, 0, 0))

BeginLeave(kind, c, roomId, target) ==
    /\ ioRooms' = SocketLeave(ioRooms, c, Canvas(roomId))
    /\ socketRoomMap' = MapDelete(socketRoomMap, c)
    /\ tasks' = Append(tasks, Task(kind, c, "pull", roomId, target, 0, 0))

JoinRoom(c, rawRoomId) ==
    LET roomId == normalizeRoomId(rawRoomId)
        currentRoomId == MapGet(socketRoomMap, c)
    IN
    /\ c \in connected
    /\ Len(tasks) < MaxInFlight
    /\ last' = Handled("join-room", c, roomId, roomId # <<>>)
    /\ IF roomId = <<>>
       THEN /\ out' = <<EmitSelf(connected, c, "room-error", "Room ID is required")>>
            /\ UNCHANGED <<ioRooms, socketRoomMap, tasks>>
       ELSE IF currentRoomId # <<>> /\ currentRoomId # roomId
       THEN /\ BeginLeave("join-room", c, currentRoomId, roomId)
            /\ out' = <<>>
       ELSE /\ tasks' = Append(tasks, Task("join-room", c, "add", <<>>, roomId, 0, 0))
            /\ out' = <<>>
            /\ UNCHANGED <<ioRooms, socketRoomMap>>
    /\ UNCHANGED <<connected, dbRooms, joined, created, typingVars, clockVars, scVars>>

LeaveRoom(c) ==
    LET roomId == MapGet(socketRoomMap, c) IN
    /\ c \in connected
    /\ Len(tasks) < MaxInFlight
    /\ last' = Handled("leave-room", c, roomId, roomId # <<>>)
    /\ out' = <<>>
    /\ joined' = [joined EXCEPT ![c] = <<>>]
    /\ IF roomId = <<>>
       THEN UNCHANGED <<ioRooms, socketRoomMap, tasks>>
       ELSE BeginLeave("leave-room", c, roomId, <<>>)
    /\ UNCHANGED <<connected, dbRooms, created, typingVars, clockVars, scVars>>

\* socket.io empties the socket's rooms before the disconnect handler runs.  With
\* no canvas room the handler goes straight on to handleLeaveTypingRoom.
Disconnect(c) ==
    LET roomId == MapGet(socketRoomMap, c)
        io0 == [ioRooms EXCEPT ![c] = {}]
        S == handleLeaveTypingRoom([TypingState EXCEPT !.io = io0], connected \ {c}, c)
    IN
    /\ c \in connected
    /\ Len(tasks) < MaxInFlight
    /\ connected' = connected \ {c}
    /\ last' = Handled("disconnect", c, roomId, TRUE)
    /\ joined' = [joined EXCEPT ![c] = <<>>]
    /\ IF roomId = <<>>
       THEN /\ typingSocketRoomMap' = S.map
            /\ typingRooms' = S.rooms
            /\ ioRooms' = S.io
            /\ out' = S.out
            /\ UNCHANGED <<socketRoomMap, tasks>>
       ELSE /\ ioRooms' = io0
            /\ socketRoomMap' = MapDelete(socketRoomMap, c)
            /\ tasks' = Append(tasks, Task("disconnect", c, "pull", roomId, <<>>, 0, 0))
            /\ out' = <<>>
            /\ UNCHANGED typingVars
    /\ UNCHANGED <<dbRooms, created, clockVars, scVars>>

\* handleLeaveRoom after removeSocketFromRoom has resolved (lines 230-234), and
\* what the caller does next: handleJoinRoom issues its $addToSet (line 199), the
\* disconnect handler runs handleLeaveTypingRoom (line 499).
AfterLeave(i, remainingUsers) ==
    LET t == tasks[i]
        notices ==
            << EmitOthers(ioRooms, connected, t.c, Canvas(t.room), "user-left",
                          [roomId |-> t.room, socketId |-> t.c]),
               EmitAll(ioRooms, connected, "io", Canvas(t.room), "user-count-update",
                       [roomId |-> t.room, count |-> remainingUsers]) >>
        S == handleLeaveTypingRoom(TypingState, connected, t.c)
    IN
    IF t.kind = "disconnect"
    THEN /\ tasks' = DropTask(i)
         /\ typingSocketRoomMap' = S.map
         /\ typingRooms' = S.rooms
         /\ ioRooms' = S.io
         /\ out' = notices \o S.out
    ELSE /\ tasks' = IF t.kind = "join-room"
                     THEN ReplaceTask(i, [t EXCEPT !.pc = "add"])
                     ELSE DropTask(i)
         /\ out' = notices
         /\ UNCHANGED <<typingVars, ioRooms>>

\* Room.findOneAndUpdate({roomId}, {$pull: {users: socketId}}) resolves.
StorePull(i) ==
    /\ i \in 1..Len(tasks)
    /\ tasks[i].pc = "pull"
    /\ LET t == tasks[i] IN
       /\ last' = Handled("store-pull", t.c, t.room, t.room \in DOMAIN dbRooms)
       /\ IF t.room \notin DOMAIN dbRooms
          THEN /\ UNCHANGED dbRooms
               /\ AfterLeave(i, 0)
          ELSE LET users == Without(dbRooms[t.room].users, t.c) IN
               /\ dbRooms' = [dbRooms EXCEPT ![t.room].users = users]
               /\ IF users = <<>>
                  THEN /\ tasks' = ReplaceTask(i, [t EXCEPT !.pc = "delete",
                                                            !.oid = dbRooms[t.room].oid])
                       /\ out' = <<>>
                       /\ UNCHANGED <<typingVars, ioRooms>>
                  ELSE AfterLeave(i, Len(users))
    /\ UNCHANGED <<connected, socketRoomMap, joined, created, clockVars, scVars>>

\* Room.deleteOne({_id}) resolves.
StoreDelete(i) ==
    /\ i \in 1..Len(tasks)
    /\ tasks[i].pc = "delete"
    /\ LET t == tasks[i] IN
       /\ last' = Handled("store-delete", t.c, t.room, TRUE)
       /\ dbRooms' = [r \in { x \in DOMAIN dbRooms : dbRooms[x].oid # t.oid } |-> dbRooms[r]]
       /\ AfterLeave(i, 0)
    /\ UNCHANGED <<connected, socketRoomMap, joined, created, clockVars, scVars>>

\* Room.findOneAndUpdate({roomId}, {$addToSet: {users: socket.id}}) resolves and
\* handleJoinRoom runs to its end (lines 205-216).
StoreAdd(i) ==
    /\ i \in 1..Len(tasks)
    /\ tasks[i].pc = "add"
    /\ LET t == tasks[i] IN
       /\ tasks' = DropTask(i)
       /\ last' = Handled("store-add", t.c, t.target, t.target \in DOMAIN dbRooms)
       /\ IF t.target \notin DOMAIN dbRooms
          THEN /\ out' = <<EmitSelf(connected, t.c, "room-error", "Room not found")>>
               /\ UNCHANGED <<dbRooms, socketRoomMap, ioRooms, joined>>
          ELSE LET users == AddToSet(dbRooms[t.target].users, t.c)
                   existingUsers == Without(users, t.c)
                   io1 == SocketJoin(ioRooms, t.c, Canvas(t.target))
               IN
               /\ dbRooms' = [dbRooms EXCEPT ![t.target].users = users]
               /\ socketRoomMap' = MapSet(socketRoomMap, t.c, t.target)
               /\ ioRooms' = io1
               /\ joined' = IF t.c \in connected THEN [joined EXCEPT ![t.c] = t.target]
                            ELSE joined
               /\ out' = << EmitSelf(connected, t.c, "existing-users",
                               [roomId |-> t.target, users |-> existingUsers]),
                            EmitOthers(io1, connected, t.c, Canvas(t.target), "user-joined",
                               [roomId |-> t.target, socketId |-> t.c]),
                            EmitAll(io1, connected, "io", Canvas(t.target), "user-count-update",
                               [roomId |-> t.target, count |-> Len(users)]) >>
    /\ UNCHANGED <<connected, created, typingVars, clockVars, scVars>>

\* POST /api/rooms/create: createUniqueRoomId issues its first findOne.
CreateRoom(candidate) ==
    /\ created < MaxCreates
    /\ Len(tasks) < MaxInFlight
    /\ created' = created + 1
    /\ tasks' = Append(tasks, Task("create", "http", "findOne", candidate, <<>>, created + 1, 0))
    /\ out' = <<>>
    /\ last' = Handled("create-room", "http", candidate, TRUE)
    /\ UNCHANGED <<connected, ioRooms, dbRooms, socketRoomMap, joined, typingVars,
                   clockVars, scVars>>

HttpReply(status, roomId) ==
    [ev |-> "http", to |-> {}, from |-> "http", body |-> [status |-> status, roomId |-> roomId]]

\* Room.findOne({roomId: candidate}) resolves; a taken id is retried with a new
\* candidate until the attempts run out.
StoreFindOne(i, nextCandidate) ==
    /\ i \in 1..Len(tasks)
    /\ tasks[i].pc = "findOne"
    /\ LET t == tasks[i] IN
       /\ last' = Handled("store-findOne", "http", t.room, t.room \notin DOMAIN dbRooms)
       /\ IF t.room \notin DOMAIN dbRooms
          THEN /\ tasks' = ReplaceTask(i, [t EXCEPT !.pc = "create"])
               /\ out' = <<>>
          ELSE IF t.attempt + 1 < CREATE_ATTEMPTS
          THEN /\ tasks' = ReplaceTask(i, [t EXCEPT !.room = nextCandidate,
                                                    !.attempt = @ + 1])
               /\ out' = <<>>
          ELSE /\ tasks' = DropTask(i)
               /\ out' = <<HttpReply(500, <<>>)>>
    /\ UNCHANGED <<connected, ioRooms, dbRooms, socketRoomMap, joined, created, typingVars,
                   clockVars, scVars>>

\* A schema whose roomId field is not declared unique.
DuplicateKeyUnchecked(rooms, roomId) == FALSE

\* roomId: { type: String, unique: true }: the index rejects a document whose
\* roomId another document has.
DuplicateKey(rooms, roomId) == roomId \in DOMAIN rooms

\* Room.create({roomId, isActive: true, users: []}) resolves; the unique index on
\* roomId rejects a second document with the same id.
StoreCreate(i) ==
    /\ i \in 1..Len(tasks)
    /\ tasks[i].pc = "create"
    /\ LET t == tasks[i] IN
       /\ tasks' = DropTask(i)
       /\ last' = Handled("store-create", "http", t.room, ~DuplicateKey(dbRooms, t.room))
       /\ IF DuplicateKey(dbRooms, t.room)
          THEN /\ out' = <<HttpReply(500, <<>>)>>
               /\ UNCHANGED dbRooms
          ELSE /\ dbRooms' = MapSet(dbRooms, t.room, [oid |-> t.oid, users |-> <<>>])
               /\ out' = <<HttpReply(201, t.room)>>
    /\ UNCHANGED <<connected, ioRooms, socketRoomMap, joined, created, typingVars,
                   clockVars, scVars>>

\* The pending store call rejects.  handleJoinRoom catches it (lines 217-220);
\* the leave-room and disconnect handlers do not, and end there; the create route
\* answers 500.
StoreFail(i) ==
    /\ i \in 1..Len(tasks)
    /\ LET t == tasks[i] IN
       /\ tasks' = DropTask(i)
       /\ last' = Handled("store-fail", t.c, t.room, FALSE)
       /\ out' = IF t.kind = "join-room"
                 THEN <<EmitSelf(connected, t.c, "room-error", "Failed to join room")>>
                 ELSE IF t.kind = "create" THEN <<HttpReply(500, <<>>)>>
                 ELSE <<>>
    /\ UNCHANGED <<connected, ioRooms, dbRooms, socketRoomMap, joined, created, typingVars,
                   clockVars, scVars>>

\* ---------------------------------------------------------- specifications
Init ==
    /\ connected = Conns
    /\ ioRooms = [c \in Conns |-> {}]
    /\ dbRooms = EmptyMap
    /\ created = 0
    /\ socketRoomMap = EmptyMap
    /\ typingSocketRoomMap = EmptyMap
    /\ typingRooms = EmptyMap
    /\ tasks = <<>>
    /\ now = 1
    /\ ticks = 0
    /\ out = <<>>
    /\ last = Handled("init", "none", <<>>, TRUE)
    /\ joined = [c \in Conns |-> <<>>]
    /\ scPrompt = <<>>
    /\ scTyped = <<>>
    /\ scResult = <<>>

\* The typing race in one room: s1 joins under any name and types plain
\* keystrokes (no paste hint, no explicit delta), s2 joins and leaves as a
\* second member, the create route may make the room again, the clock moves.
RaceRoomIds == { <<" ">> \o [i \in 1..ROOM_ID_LENGTH |-> "a"] \o <<" ">> }
RaceUsernames == { <<"A","n","n">>, <<" ","b","o","b"," ">>, <<"B","o">> }
RaceValues == { <<"c">>, <<"c","a","t">>, <<"c","a","p">>, <<"c","a","t","s">> }
Keystrokes == [value : RaceValues, isPaste : {FALSE}, delta : {0}]

Next ==
    \/ \E text \in typingTexts : CreateTypingRoom(idA, text)
    \/ \E rawRoomId \in RaceRoomIds, rawUsername \in RaceUsernames :
          JoinTypingRoom("s1", rawRoomId, rawUsername)
    \/ \E rawRoomId \in RaceRoomIds : JoinTypingRoom("s2", rawRoomId, <<"A","n","n">>)
    \/ \E payload \in Keystrokes : TypingUpdate("s1", payload)
    \/ \E c \in Conns : LeaveTypingRoom(c)
    \/ \E c \in Conns : Disconnect(c)
    \/ \E d \in {100, TYPING_TIME_LIMIT_MS} : Tick(d)

Spec == Init /\ [][Next]_vars

\* Two racers in one room at one instant of the clock: both join under either
\* name and both type.
NextBoard ==
    \/ \E text \in typingTexts : CreateTypingRoom(idA, text)
    \/ \E c \in Conns, rawRoomId \in RaceRoomIds,
          rawUsername \in { <<"A","n","n">>, <<" ","b","o","b"," ">> } :
          JoinTypingRoom(c, rawRoomId, rawUsername)
    \/ \E c \in Conns, payload \in Keystrokes : TypingUpdate(c, payload)
    \/ \E c \in Conns : LeaveTypingRoom(c)

SpecBoard == Init /\ [][NextBoard]_vars

\* Room membership and voice over two typing rooms: joins, leaves, voice
\* presence, the signalling relay and disconnects.
VoiceRoomIds == { <<" ">> \o [i \in 1..ROOM_ID_LENGTH |-> "a"] \o <<" ">>, idB }

NextVoice ==
    \/ \E roomId \in generateRoomId, text \in typingTexts : CreateTypingRoom(roomId, text)
    \/ \E c \in Conns, rawRoomId \in VoiceRoomIds : JoinTypingRoom(c, rawRoomId, <<"A","n","n">>)
    \/ \E c \in Conns : LeaveTypingRoom(c)
    \/ \E c \in Conns : JoinTypingVoice(c)
    \/ \E c \in Conns : LeaveTypingVoice(c)
    \/ \E c \in Conns, ev \in TypingSignals, targetId \in Conns \cup {""} :
          forwardTypingVoiceSignal(c, ev, targetId, "sdp")
    \/ \E c \in Conns : Disconnect(c)

SpecVoice == Init /\ [][NextVoice]_vars

\* The canvas handlers, each run to completion before the next event is taken,
\* over a store that answers every call.
NextCanvas ==
    \/ \E candidate \in generateRoomId : tasks = <<>> /\ CreateRoom(candidate)
    \/ \E c \in Conns, rawRoomId \in RawRoomIds : tasks = <<>> /\ JoinRoom(c, rawRoomId)
    \/ \E c \in Conns : tasks = <<>> /\ LeaveRoom(c)
    \/ \E c \in Conns : tasks = <<>> /\ Disconnect(c)
    \/ \E i \in 1..MaxInFlight : StorePull(i)
    \/ \E i \in 1..MaxInFlight : StoreDelete(i)
    \/ \E i \in 1..MaxInFlight : StoreAdd(i)
    \/ \E i \in 1..MaxInFlight, nextCandidate \in generateRoomId : StoreFindOne(i, nextCandidate)
    \/ \E i \in 1..MaxInFlight : StoreCreate(i)

SpecCanvas == Init /\ [][NextCanvas]_vars

\* Both modes side by side, each canvas handler run to completion before the
\* next event: canvas rooms, one typing room and the canvas signalling relay.
NextRelay ==
    \/ \E candidate \in generateRoomId : tasks = <<>> /\ CreateRoom(candidate)
    \/ \E c \in Conns, rawRoomId \in VoiceRoomIds : tasks = <<>> /\ JoinRoom(c, rawRoomId)
    \/ \E c \in Conns : tasks = <<>> /\ LeaveRoom(c)
    \/ \E i \in 1..MaxInFlight : StorePull(i)
    \/ \E i \in 1..MaxInFlight : StoreDelete(i)
    \/ \E i \in 1..MaxInFlight : StoreAdd(i)
    \/ \E i \in 1..MaxInFlight, nextCandidate \in generateRoomId : StoreFindOne(i, nextCandidate)
    \/ \E i \in 1..MaxInFlight : StoreCreate(i)
    \/ \E text \in typingTexts : tasks = <<>> /\ CreateTypingRoom(idA, text)
    \/ \E c \in Conns : tasks = <<>> /\ JoinTypingRoom(c, idA, <<"A","n","n">>)
    \/ \E c \in Conns, ev \in CanvasSignals, targetId \in Conns :
          tasks = <<>> /\ forwardCanvasSignal(c, ev, targetId, "sdp")

SpecRelay == Init /\ [][NextRelay]_vars

\* Disconnects over a store whose calls may fail: one canvas room, one typing
\* room, each handler run to completion before the next event.
NextFault ==
    \/ tasks = <<>> /\ CreateRoom(idA)
    \/ \E c \in Conns : tasks = <<>> /\ JoinRoom(c, idA)
    \/ \E c \in Conns : tasks = <<>> /\ LeaveRoom(c)
    \/ \E c \in Conns : tasks = <<>> /\ Disconnect(c)
    \/ \E i \in 1..MaxInFlight : StorePull(i)
    \/ \E i \in 1..MaxInFlight : StoreDelete(i)
    \/ \E i \in 1..MaxInFlight : StoreAdd(i)
    \/ \E i \in 1..MaxInFlight, nextCandidate \in generateRoomId : StoreFindOne(i, nextCandidate)
    \/ \E i \in 1..MaxInFlight : StoreCreate(i)
    \/ \E i \in 1..MaxInFlight : StoreFail(i)
    \/ \E text \in typingTexts : tasks = <<>> /\ CreateTypingRoom(idA, text)
    \/ \E c \in Conns : tasks = <<>> /\ JoinTypingRoom(c, idA, <<"A","n","n">>)
    \/ \E c \in Conns : tasks = <<>> /\ LeaveTypingRoom(c)

SpecFault == Init /\ [][NextFault]_vars

\* ------------------------------------------------- the scoring function alone
\* Longest typed input of the scoring check.
MaxTypedLen == 4
ScoreAlphabet == {"c", "a", "t", "p", "s"}
ScorePrompts == { <<>>, <<"c","a">>, <<"c","a","t">> }
ScoreInputs == UNION { [1..n -> ScoreAlphabet] : n \in 0..MaxTypedLen }

InitScore ==
    /\ connected = Conns
    /\ ioRooms = [c \in Conns |-> {}]
    /\ dbRooms = EmptyMap
    /\ created = 0
    /\ socketRoomMap = EmptyMap
    /\ typingSocketRoomMap = EmptyMap
    /\ typingRooms = EmptyMap
    /\ tasks = <<>>
    /\ now = 1
    /\ ticks = 0
    /\ out = <<>>
    /\ last = Handled("init", "none", <<>>, TRUE)
    /\ joined = [c \in Conns |-> <<>>]
    /\ scPrompt \in ScorePrompts
    /\ scTyped \in ScoreInputs
    /\ scResult = <<>>

Score ==
    /\ scResult = <<>>
    /\ scResult' = <<computeScore(scPrompt, scTyped)>>
    /\ UNCHANGED <<connected, ioRooms, canvasVars, created, typingVars, clockVars, out, last,
                   scPrompt, scTyped>>

SpecScore == InitScore /\ [][Score]_vars

\* ------------------------------------------------------------------ claims
Quiescent == tasks = <<>>
Messages(evs) == { i \in 1..Len(out) : out[i].ev \in evs }
ParticipantRooms(c) == { r \in DOMAIN typingRooms : Has(typingRooms[r].users, c) }
VoiceRooms(c) == { r \in DOMAIN typingRooms : Has(typingRooms[r].voiceParticipants, c) }
Pending(c) == \E i \in 1..Len(tasks) : tasks[i].c = c

\* C1: whenever no handler is in flight, every room record's users set is
\* exactly the set of connections whose last accepted join-room named that room
\* and that have not sent leave-room or disconnected since, and the room of
\* such a connection still has its record.
C1_UsersAreTheJoined ==
    Quiescent =>
        /\ \A r \in DOMAIN dbRooms :
              Range(dbRooms[r].users) = { c \in Conns : joined[c] = r }
        /\ \A c \in Conns : joined[c] # <<>> => joined[c] \in DOMAIN dbRooms

\* C2: a typing-voice signal reaches at most its target, only when sender and
\* target are mapped to the same typing room, tagged with the sender's id;
\* a relay step emits nothing else.
C2_TypingSignalSameRoom ==
    /\ \A i \in Messages(TypingSignals) :
          /\ out[i].ev = last.ev
          /\ out[i].to \subseteq {last.target}
          /\ out[i].body.fromId = last.c
          /\ last.c \in DOMAIN typingSocketRoomMap
          /\ last.target \in DOMAIN typingSocketRoomMap
          /\ typingSocketRoomMap[last.target] = typingSocketRoomMap[last.c]
    /\ last.ev \in TypingSignals => Len(out) <= 1 /\ Messages(TypingSignals) = 1..Len(out)

C2_SignalDelivered ==
    /\ last.ev \in TypingSignals
    /\ \E i \in Messages(TypingSignals) : out[i].to = {last.target} /\ last.target # last.c

\* C3: a canvas offer, answer or ice-candidate reaches its target only when
\* sender and target are bound to the same canvas room.
C3_CanvasSignalSameRoom ==
    \A i \in Messages(CanvasSignals) :
        \A t \in out[i].to :
            /\ last.c \in DOMAIN socketRoomMap
            /\ t \in DOMAIN socketRoomMap
            /\ socketRoomMap[t] = socketRoomMap[last.c]

\* C4: each connection is a participant of at most one typing room.
C4_AtMostOneTypingRoom ==
    \A c \in Conns : Cardinality(ParticipantRooms(c)) <= 1

\* C5: once a connection's disconnect handler has finished, no typing room and
\* neither registry map refers to it.
C5_DisconnectLeavesNothing ==
    \A c \in Conns \ connected :
        ~Pending(c) =>
            /\ ParticipantRooms(c) = {}
            /\ VoiceRooms(c) = {}
            /\ c \notin DOMAIN socketRoomMap
            /\ c \notin DOMAIN typingSocketRoomMap

\* C6: the same, over a store whose calls may fail: a failed canvas cleanup
\* does not keep the typing-room cleanup from being done.
C6_CleanupDespiteStoreError ==
    \A c \in Conns \ connected :
        ~Pending(c) =>
            /\ c \notin DOMAIN typingSocketRoomMap
            /\ ParticipantRooms(c) = {}
            /\ VoiceRooms(c) = {}

\* The ordering key of two leaderboard rows: a strictly before b.
KeyBefore(a, b) ==
    \/ a.score > b.score
    \/ /\ a.score = b.score
       /\ \/ a.completionTime # 0 /\ b.completionTime = 0
          \/ a.completionTime # 0 /\ b.completionTime # 0 /\ a.completionTime < b.completionTime
          \/ /\ a.completionTime = b.completionTime
             /\ localeCompare(a.username, b.username) < 0

\* C7: every emitted leaderboard lists a participant after none that the key
\* (score descending, then completion time with absent last, then username)
\* puts behind it.
C7_LeaderboardOrder ==
    \A m \in Messages({"leaderboard-update"}) :
        LET rows == out[m].body.leaderboard IN
        \A i, j \in 1..Len(rows) : i < j => ~KeyBefore(rows[j], rows[i])

\* Positions of a typed value: inside the prompt and right, inside and wrong,
\* and past the prompt's end.
Overlap(prompt, typed) == 1..(IF Len(typed) < Len(prompt) THEN Len(typed) ELSE Len(prompt))
Matches(prompt, typed) == { i \in Overlap(prompt, typed) : typed[i] = prompt[i] }
Mismatches(prompt, typed) == { i \in Overlap(prompt, typed) : typed[i] # prompt[i] }
Overrun(prompt, typed) == { i \in 1..Len(typed) : i > Len(prompt) }
cat == <<"c", "a", "t">>
cap == <<"c", "a", "p">>
cats == <<"c", "a", "t", "s">>

\* C8: computeScore(prompt, typed) is the number of positions inside the prompt
\* where the typed character matches, minus the number where it differs, minus
\* the number of characters typed at or beyond the prompt's length; it gives 3
\* for ("cat","cat"), 1 for ("cat","cap") and 2 for ("cat","cats").
C8_ScoreIsMatchesMinusErrors ==
    scResult # <<>> =>
        /\ scResult[1].score = Cardinality(Matches(scPrompt, scTyped))
                               - Cardinality(Mismatches(scPrompt, scTyped))
                               - Cardinality(Overrun(scPrompt, scTyped))
        /\ scPrompt = cat /\ scTyped = cat => scResult[1].score = 3
        /\ scPrompt = cat /\ scTyped = cap => scResult[1].score = 1
        /\ scPrompt = cat /\ scTyped = cats => scResult[1].score = 2

C8_OverrunScored ==
    /\ scPrompt = cat
    /\ scTyped = cats
    /\ scResult # <<>>
    /\ scResult[1].score = 2

\* C9: a typing-update sent by a connection whose participant is already
\* completed or timed out changes none of that participant's score,
\* typedLength, correctChars, flags, isFlagged, completionTime and expiresAt,
\* and emits nothing.
C9_TerminalIgnoresUpdates ==
    [][ \A c \in Conns : \A r \in DOMAIN typingRooms :
          ( /\ last'.ev = "typing-update"
            /\ last'.c = c
            /\ MapGet(typingSocketRoomMap, c) = r
            /\ Has(typingRooms[r].users, c)
            /\ LET u == Get(typingRooms[r].users, c) IN u.isCompleted \/ u.isTimeUp )
          => /\ out' = <<>>
             /\ r \in DOMAIN typingRooms'
             /\ Has(typingRooms'[r].users, c)
             /\ LET u == Get(typingRooms[r].users, c)
                    v == Get(typingRooms'[r].users, c)
                IN /\ v.score = u.score
                   /\ v.typedLength = u.typedLength
                   /\ v.correctChars = u.correctChars
                   /\ v.flags = u.flags
                   /\ v.isFlagged = u.isFlagged
                   /\ v.completionTime = u.completionTime
                   /\ v.expiresAt = u.expiresAt
      ]_vars

C9_TimedOutSentUpdate ==
    /\ last.ev = "typing-update"
    /\ ~last.ok
    /\ last.c \in DOMAIN typingSocketRoomMap
    /\ LET r == typingSocketRoomMap[last.c] IN
          /\ r \in DOMAIN typingRooms
          /\ Has(typingRooms[r].users, last.c)
          /\ Get(typingRooms[r].users, last.c).isTimeUp
          /\ ~Get(typingRooms[r].users, last.c).isCompleted

\* C10: a participant record starts with startedAt and expiresAt unset; they
\* become set only in an accepted typing-update of that participant, to the
\* time of the update and to 60 s after it; every accepted update leaves them
\* set; once set, no step that keeps the participant (a later update, a
\* re-join of the room) changes them.
C10_ClockSetOnce ==
    [][ /\ \A r \in DOMAIN typingRooms' : \A c \in Conns :
             Has(typingRooms'[r].users, c) =>
                LET v == Get(typingRooms'[r].users, c)
                    kept == r \in DOMAIN typingRooms /\ Has(typingRooms[r].users, c)
                IN /\ v.expiresAt = (IF v.startedAt = 0 THEN 0 ELSE v.startedAt + 60 * 1000)
                   /\ ~kept => v.startedAt = 0
                   /\ kept =>
                        LET u == Get(typingRooms[r].users, c) IN
                        IF u.startedAt # 0
                        THEN v.startedAt = u.startedAt /\ v.expiresAt = u.expiresAt
                        ELSE v.startedAt # 0 =>
                                /\ last' = Handled("typing-update", c, r, TRUE)
                                /\ v.startedAt = now
        /\ (last'.ev = "typing-update" /\ last'.ok) =>
               /\ last'.roomId \in DOMAIN typingRooms'
               /\ Has(typingRooms'[last'.roomId].users, last'.c)
               /\ Get(typingRooms'[last'.roomId].users, last'.c).startedAt # 0
      ]_vars

C10_LaterUpdateKeptClock ==
    /\ last.ev = "typing-update"
    /\ last.ok
    /\ last.roomId \in DOMAIN typingRooms
    /\ Has(typingRooms[last.roomId].users, last.c)
    /\ LET u == Get(typingRooms[last.roomId].users, last.c) IN
          /\ u.startedAt # 0
          /\ u.startedAt < now
          /\ u.lastUpdateAt = now

\* Voice in one typing room while the clock moves between the handlers.
NextVoiceClock ==
    \/ \E text \in typingTexts : CreateTypingRoom(idA, text)
    \/ \E c \in Conns : JoinTypingRoom(c, idA, <<"A","n","n">>)
    \/ \E c \in Conns : JoinTypingVoice(c)
    \/ \E c \in Conns : LeaveTypingVoice(c)
    \/ \E c \in Conns : Disconnect(c)
    \/ Tick(100)

SpecVoiceClock == Init /\ [][NextVoiceClock]_vars

\* Names at the edges of the validation: none, blanks only, 15 and 16
\* characters, 15 characters inside blanks, every kind of allowed character,
\* and a character that is not allowed.
EdgeUsernames ==
    { <<>>, <<" ", " ", " ">>,
      [i \in 1..MAX_USERNAME_LENGTH |-> "x"],
      [i \in 1..(MAX_USERNAME_LENGTH + 1) |-> "x"],
      <<" ">> \o [i \in 1..MAX_USERNAME_LENGTH |-> "y"] \o <<" ">>,
      <<"a", "_", "Z", "-", " ", "9">>,
      <<"A", "n", "n", "!">>, <<"a", ".", "b">> }

\* Joining and leaving one typing room under every kind of request.
NextJoin ==
    \/ \E text \in typingTexts : CreateTypingRoom(idA, text)
    \/ \E c \in Conns, rawRoomId \in RawRoomIds, rawUsername \in RawUsernames \cup EdgeUsernames :
          JoinTypingRoom(c, rawRoomId, rawUsername)
    \/ \E c \in Conns : LeaveTypingRoom(c)

SpecJoin == Init /\ [][NextJoin]_vars

\* One participant whose updates may be pastes, bursts or wrong characters.
FlagValues == { <<"x">>, <<"c","a","t">>, [i \in 1..13 |-> "x"] }
FlagPayloads == [value : FlagValues, isPaste : BOOLEAN, delta : {0, PASTE_MIN_DELTA}]

NextFlags ==
    \/ \E text \in typingTexts : CreateTypingRoom(idA, text)
    \/ \E rawUsername \in {<<"A","n","n">>, <<" ","b","o","b"," ">>} :
          JoinTypingRoom("s1", idA, rawUsername)
    \/ \E payload \in FlagPayloads : TypingUpdate("s1", payload)
    \/ LeaveTypingRoom("s1")
    \/ \E d \in {100, PASTE_WINDOW_MS, TYPING_TIME_LIMIT_MS} : Tick(d)

SpecFlags == Init /\ [][NextFlags]_vars

\* Drawing in canvas rooms, each handler run to completion before the next
\* event, next to a typing room under the same code.
NextDraw ==
    \/ \E candidate \in generateRoomId : tasks = <<>> /\ CreateRoom(candidate)
    \/ \E c \in Conns, rawRoomId \in VoiceRoomIds : tasks = <<>> /\ JoinRoom(c, rawRoomId)
    \/ \E c \in Conns : tasks = <<>> /\ LeaveRoom(c)
    \/ \E c \in Conns : tasks = <<>> /\ Disconnect(c)
    \/ \E i \in 1..MaxInFlight : StorePull(i)
    \/ \E i \in 1..MaxInFlight : StoreDelete(i)
    \/ \E i \in 1..MaxInFlight : StoreAdd(i)
    \/ \E i \in 1..MaxInFlight, nextCandidate \in generateRoomId : StoreFindOne(i, nextCandidate)
    \/ \E i \in 1..MaxInFlight : StoreCreate(i)
    \/ \E text \in typingTexts : tasks = <<>> /\ CreateTypingRoom(idA, text)
    \/ tasks = <<>> /\ JoinTypingRoom("s2", idA, <<"A","n","n">>)
    \/ \E c \in Conns, ev \in RoomEvents, payload \in DrawPayloads :
          tasks = <<>> /\ forwardRoomEvent(c, ev, payload)
    \/ \E c \in Conns : tasks = <<>> /\ clearCanvas(c)

SpecDraw == Init /\ [][NextDraw]_vars

\* Canvas handlers interleaved at their awaits: a join or leave is taken while
\* earlier handlers still wait for the store; strokes are sent between races.
NextRace ==
    \/ \E candidate \in generateRoomId : CreateRoom(candidate)
    \/ \E c \in Conns, roomId \in generateRoomId : JoinRoom(c, roomId)
    \/ \E c \in Conns : LeaveRoom(c)
    \/ \E i \in 1..MaxInFlight : StorePull(i)
    \/ \E i \in 1..MaxInFlight : StoreDelete(i)
    \/ \E i \in 1..MaxInFlight : StoreAdd(i)
    \/ \E i \in 1..MaxInFlight, nextCandidate \in generateRoomId : StoreFindOne(i, nextCandidate)
    \/ \E i \in 1..MaxInFlight : StoreCreate(i)
    \/ \E c \in Conns, payload \in DrawPayloads :
          tasks = <<>> /\ forwardRoomEvent(c, "draw", payload)

SpecRace == Init /\ [][NextRace]_vars

\* The two-participant race: s1 joins as Ann and types, s2 asks to join as Bo
\* or as bob and never types, the clock moves, either may disconnect.
Bo == <<"B", "o">>
bob == <<"b", "o", "b">>

NextScenario ==
    \/ \E text \in typingTexts : CreateTypingRoom(idA, text)
    \/ JoinTypingRoom("s1", idA, <<"A","n","n">>)
    \/ \E rawUsername \in {Bo, bob} : JoinTypingRoom("s2", idA, rawUsername)
    \/ \E payload \in Keystrokes : TypingUpdate("s1", payload)
    \/ \E c \in Conns : Disconnect(c)
    \/ \E d \in {100, TYPING_TIME_LIMIT_MS} : Tick(d)

SpecScenario == Init /\ [][NextScenario]_vars

\* One canvas room whose handlers interleave at their awaits, with connections
\* that may go away while their own handlers still wait for the store.
NextGone ==
    \/ CreateRoom(idA)
    \/ \E c \in Conns : JoinRoom(c, idA)
    \/ \E c \in Conns : LeaveRoom(c)
    \/ \E c \in Conns : Disconnect(c)
    \/ \E i \in 1..MaxInFlight : StorePull(i)
    \/ \E i \in 1..MaxInFlight : StoreDelete(i)
    \/ \E i \in 1..MaxInFlight : StoreAdd(i)
    \/ \E i \in 1..MaxInFlight, nextCandidate \in generateRoomId : StoreFindOne(i, nextCandidate)
    \/ \E i \in 1..MaxInFlight : StoreCreate(i)

SpecGone == Init /\ [][NextGone]_vars

\* One canvas room; a connection sends its next event when its own handler has
\* finished, while the handlers of different connections interleave.
NextCross ==
    \/ CreateRoom(idA)
    \/ \E c \in Conns : ~Pending(c) /\ JoinRoom(c, idA)
    \/ \E c \in Conns : ~Pending(c) /\ LeaveRoom(c)
    \/ \E i \in 1..MaxInFlight : StorePull(i)
    \/ \E i \in 1..MaxInFlight : StoreDelete(i)
    \/ \E i \in 1..MaxInFlight : StoreAdd(i)
    \/ \E i \in 1..MaxInFlight, nextCandidate \in generateRoomId : StoreFindOne(i, nextCandidate)
    \/ \E i \in 1..MaxInFlight : StoreCreate(i)

SpecCross == Init /\ [][NextCross]_vars

\* The server starts over a durable store that already holds a canvas room made
\* by an earlier run; creations then run concurrently with that record in place.
InitStored ==
    /\ connected = Conns
    /\ ioRooms = [c \in Conns |-> {}]
    /\ dbRooms = MapSet(EmptyMap, idA, [oid |-> 0, users |-> <<>>])
    /\ created = 0
    /\ socketRoomMap = EmptyMap
    /\ typingSocketRoomMap = EmptyMap
    /\ typingRooms = EmptyMap
    /\ tasks = <<>>
    /\ now = 1
    /\ ticks = 0
    /\ out = <<>>
    /\ last = Handled("init", "none", <<>>, TRUE)
    /\ joined = [c \in Conns |-> <<>>]
    /\ scPrompt = <<>>
    /\ scTyped = <<>>
    /\ scResult = <<>>

NextCreate ==
    \/ \E candidate \in generateRoomId : CreateRoom(candidate)
    \/ \E i \in 1..MaxInFlight, nextCandidate \in generateRoomId : StoreFindOne(i, nextCandidate)
    \/ \E i \in 1..MaxInFlight : StoreCreate(i)
    \/ \E i \in 1..MaxInFlight : StoreFail(i)

SpecCreate == InitStored /\ [][NextCreate]_vars

\* One participant under every event that touches a participant that stays:
\* updates that earn flags, a re-join of the same room, voice on and off.
NextFlagsVoice ==
    \/ \E text \in typingTexts : CreateTypingRoom(idA, text)
    \/ \E rawUsername \in {<<"A","n","n">>, <<" ","b","o","b"," ">>} :
          JoinTypingRoom("s1", idA, rawUsername)
    \/ \E payload \in FlagPayloads : TypingUpdate("s1", payload)
    \/ JoinTypingVoice("s1")
    \/ LeaveTypingVoice("s1")
    \/ \E d \in {100, PASTE_WINDOW_MS, TYPING_TIME_LIMIT_MS} : Tick(d)

SpecFlagsVoice == Init /\ [][NextFlagsVoice]_vars

\* One participant typing inputs of every length, the empty one and one longer
\* than the prompt plus the slack included.
LengthPayloads == [value : TypedValues \cup {<<>>}, isPaste : {FALSE}, delta : {0}]

NextLengths ==
    \/ \E text \in typingTexts : CreateTypingRoom(idA, text)
    \/ JoinTypingRoom("s1", idA, <<"A","n","n">>)
    \/ \E payload \in LengthPayloads : TypingUpdate("s1", payload)
    \/ LeaveTypingRoom("s1")
    \/ \E d \in {100, TYPING_TIME_LIMIT_MS} : Tick(d)

SpecLengths == Init /\ [][NextLengths]_vars

\* One participant typing and deleting at several speeds: nothing, two
\* characters, the prompt, twenty-one characters; 100, 200 or 1400 ms apart.
SpeedValues == { <<>>, <<"x","x">>, <<"c","a","t">>, [i \in 1..21 |-> "x"] }
SpeedPayloads == [value : SpeedValues, isPaste : {FALSE}, delta : {0}]

NextSpeed ==
    \/ \E text \in typingTexts : CreateTypingRoom(idA, text)
    \/ JoinTypingRoom("s1", idA, <<"A","n","n">>)
    \/ \E payload \in SpeedPayloads : TypingUpdate("s1", payload)
    \/ LeaveTypingRoom("s1")
    \/ \E d \in {100, 200, 1400} : Tick(d)

SpecSpeed == Init /\ [][NextSpeed]_vars

\* A prompt pool that holds an empty text next to the usual one.  The pool is
\* data the create route reads; the texts shipped with the repository are all
\* non-empty, and the guard of line 338 is there for a pool that is not.
typingTextsWithEmpty == typingTexts \cup { <<>> }

NextEmptyPrompt ==
    \/ \E text \in typingTextsWithEmpty : CreateTypingRoom(idA, text)
    \/ JoinTypingRoom("s1", idA, <<"A","n","n">>)
    \/ \E payload \in LengthPayloads : TypingUpdate("s1", payload)
    \/ LeaveTypingRoom("s1")
    \/ \E d \in {100, TYPING_TIME_LIMIT_MS} : Tick(d)

SpecEmptyPrompt == Init /\ [][NextEmptyPrompt]_vars

\* The client's way of leaving a canvas room: leave-room, then disconnect at
\* once.  Every other event waits for the handlers in flight; a connection may
\* disconnect while its own leave-room is the only handler in flight.
NextLeaveGone ==
    \/ tasks = <<>> /\ CreateRoom(idA)
    \/ \E c \in Conns : tasks = <<>> /\ JoinRoom(c, idA)
    \/ \E c \in Conns : tasks = <<>> /\ LeaveRoom(c)
    \/ \E c \in Conns :
          /\ \A i \in 1..Len(tasks) : tasks[i].c = c /\ tasks[i].kind = "leave-room"
          /\ Disconnect(c)
    \/ \E i \in 1..MaxInFlight : StorePull(i)
    \/ \E i \in 1..MaxInFlight : StoreDelete(i)
    \/ \E i \in 1..MaxInFlight : StoreAdd(i)
    \/ \E i \in 1..MaxInFlight, nextCandidate \in generateRoomId : StoreFindOne(i, nextCandidate)
    \/ \E i \in 1..MaxInFlight : StoreCreate(i)

SpecLeaveGone == Init /\ [][NextLeaveGone]_vars

\* The emissions of a step that carry one of the given events.
MessagesIn(o, evs) == { i \in 1..Len(o) : o[i].ev \in evs }
\* The participant record of connection c in room r.
ParticipantIn(rooms, r, c) == Get(rooms[r].users, c)
IsParticipant(rooms, r, c) == r \in DOMAIN rooms /\ Has(rooms[r].users, c)
\* The step is a typing-update of connection c looked up in room r.
UpdateStepOf(c, r) ==
    /\ last'.ev = "typing-update"
    /\ last'.c = c
    /\ MapGet(typingSocketRoomMap, c) = r
    /\ IsParticipant(typingRooms, r, c)
\* The time-up notices of participant c of room r are in the emissions o: one
\* to c itself, one to every other connected participant and not to c.
TimeupNotified(o, rooms, r, c) ==
    /\ \E i \in MessagesIn(o, {"typing-timeup"}) : o[i].to = {c}
    /\ \E i \in MessagesIn(o, {"user-timeup"}) :
          /\ c \notin o[i].to
          /\ \A d \in connected \ {c} : Has(rooms[r].users, d) => d \in o[i].to

\* C11 (amended): an update of a participant that is not yet completed or
\* timed out, handled at or after its expiresAt, sets isTimeUp and emits
\* typing-timeup to the sender and user-timeup to the other members; an update
\* handled before expiresAt emits neither; the notices are emitted only by a
\* step that turns isTimeUp from false to true, and isTimeUp never turns back.
C11_TimeupOnceAtDeadline ==
    [][ /\ \A c \in Conns : \A r \in DOMAIN typingRooms :
             UpdateStepOf(c, r) =>
                LET u == ParticipantIn(typingRooms, r, c) IN
                /\ (~u.isCompleted /\ ~u.isTimeUp /\ u.startedAt # 0 /\ now >= u.expiresAt)
                      => /\ IsParticipant(typingRooms', r, c)
                         /\ ParticipantIn(typingRooms', r, c).isTimeUp
                         /\ TimeupNotified(out', typingRooms', r, c)
                /\ (u.startedAt = 0 \/ now < u.expiresAt)
                      => /\ MessagesIn(out', {"typing-timeup", "user-timeup"}) = {}
                         /\ ~ParticipantIn(typingRooms', r, c).isTimeUp
        /\ MessagesIn(out', {"typing-timeup", "user-timeup"}) # {}
              => /\ last'.ev = "typing-update"
                 /\ IsParticipant(typingRooms, last'.roomId, last'.c)
                 /\ ~ParticipantIn(typingRooms, last'.roomId, last'.c).isTimeUp
                 /\ ParticipantIn(typingRooms', last'.roomId, last'.c).isTimeUp
                 /\ Cardinality(MessagesIn(out', {"typing-timeup"})) = 1
                 /\ Cardinality(MessagesIn(out', {"user-timeup"})) = 1
        /\ \A c \in Conns : \A r \in DOMAIN typingRooms :
             (IsParticipant(typingRooms, r, c) /\ IsParticipant(typingRooms', r, c)
                /\ ParticipantIn(typingRooms, r, c).isTimeUp)
             => ParticipantIn(typingRooms', r, c).isTimeUp
      ]_vars

C11_TimedOutAndNotified ==
    /\ last.ev = "typing-update"
    /\ last.ok
    /\ IsParticipant(typingRooms, last.roomId, last.c)
    /\ ParticipantIn(typingRooms, last.roomId, last.c).isTimeUp
    /\ ~ParticipantIn(typingRooms, last.roomId, last.c).isCompleted
    /\ \E i \in MessagesIn(out, {"typing-timeup"}) : out[i].to = {last.c}
    /\ \E i \in MessagesIn(out, {"user-timeup"}) : out[i].to # {} /\ last.c \notin out[i].to

\* C11 as stated: every update of a participant handled at or after its
\* expiresAt, the participant not yet marked timed out, sets isTimeUp and emits
\* the two notices.
C11_EveryParticipantTimesOut ==
    [][ \A c \in Conns : \A r \in DOMAIN typingRooms :
          ( /\ UpdateStepOf(c, r)
            /\ LET u == ParticipantIn(typingRooms, r, c) IN
               ~u.isTimeUp /\ u.startedAt # 0 /\ now >= u.expiresAt )
          => /\ IsParticipant(typingRooms', r, c)
             /\ ParticipantIn(typingRooms', r, c).isTimeUp
             /\ TimeupNotified(out', typingRooms', r, c)
      ]_vars

\* C12: a join-voice by a connection that is already a voice participant of
\* its room leaves the room's voice participants, the caller's stored entry
\* with its joinedAt included, exactly as they were, broadcasts no
\* voice-user-joined, and answers with the other voice participants.
C12_SecondJoinVoiceChangesNothing ==
    [][ \A c \in Conns : \A r \in DOMAIN typingRooms :
          ( /\ last'.ev = "join-voice"
            /\ last'.c = c
            /\ MapGet(typingSocketRoomMap, c) = r
            /\ Has(typingRooms[r].voiceParticipants, c) )
          => /\ typingRooms'[r].voiceParticipants = typingRooms[r].voiceParticipants
             /\ MessagesIn(out', {"voice-user-joined"}) = {}
             /\ \E i \in MessagesIn(out', {"voice-participants"}) :
                   /\ out'[i].to = {c}
                   /\ out'[i].body.participants =
                         SelectSeq(typingRooms[r].voiceParticipants, LAMBDA p : p.socketId # c)
      ]_vars

\* C13: when a join-room has just been rejected (empty room id, or no record
\* under that id), only room-error was sent, and to the requester alone, and
\* the requester is still bound to, and still in the users set of, the room it
\* had joined before and has not left.
C13_RejectedJoinChangesNothing ==
    (last.ev \in {"join-room", "store-add"} /\ ~last.ok) =>
        /\ \A i \in 1..Len(out) : out[i].ev = "room-error" /\ out[i].to = {last.c}
        /\ joined[last.c] # <<>> =>
              /\ MapGet(socketRoomMap, last.c) = joined[last.c]
              /\ joined[last.c] \in DOMAIN dbRooms
              /\ last.c \in Range(dbRooms[joined[last.c]].users)

\* What the validation is said to admit: a name that, trimmed, has 3 to 15
\* characters, all of them letters, digits, space, hyphen or underscore.
NameAdmitted(rawUsername) ==
    LET name == trim(rawUsername) IN
    /\ Len(name) >= 3
    /\ Len(name) <= 15
    /\ \A i \in 1..Len(name) :
          name[i] \in Range(LOWER) \cup Range(UPPER) \cup Range(DIGITS) \cup {" ", "-", "_"}

\* C14: a join-typing-room is accepted exactly when its room id names an
\* existing room and its username is admitted; an accepted one makes the
\* requester a participant under the trimmed name and answers typing-room-ready;
\* a rejected one sends typing-room-error to the requester only and changes no
\* room, participant or registry entry.
C14_JoinTypingValidation ==
    [][ \A c \in Conns, rawRoomId \in RawRoomIds, rawUsername \in RawUsernames \cup EdgeUsernames :
          (last'.ev = "join-typing-room" /\ last'.c = c
             /\ JoinTypingRoom(c, rawRoomId, rawUsername)) =>
             LET roomId == normalizeRoomId(rawRoomId) IN
             IF roomId # <<>> /\ roomId \in DOMAIN typingRooms /\ NameAdmitted(rawUsername)
             THEN /\ IsParticipant(typingRooms', roomId, c)
                  /\ ParticipantIn(typingRooms', roomId, c).username = trim(rawUsername)
                  /\ MapGet(typingSocketRoomMap', c) = roomId
                  /\ \E i \in MessagesIn(out', {"typing-room-ready"}) : out'[i].to = {c}
                  /\ MessagesIn(out', {"typing-room-error"}) = {}
             ELSE /\ Len(out') = 1
                  /\ out'[1].ev = "typing-room-error"
                  /\ out'[1].to = {c}
                  /\ UNCHANGED <<typingRooms, typingSocketRoomMap, ioRooms>>
      ]_vars

C14_PaddedNameAccepted ==
    /\ last.ev = "join-typing-room"
    /\ last.ok
    /\ IsParticipant(typingRooms, last.roomId, last.c)
    /\ ParticipantIn(typingRooms, last.roomId, last.c).username = [i \in 1..15 |-> "y"]

\* C15: a join-typing-room accepted from a connection that is already a
\* participant of that room keeps the participant's score, typedLength,
\* correctChars, flags, isFlagged, isCompleted, completionTime, startedAt,
\* expiresAt and isTimeUp; of the remaining fields only username and
\* lastUpdateAt may differ.
C15_RejoinKeepsProgress ==
    [][ \A c \in Conns : \A r \in DOMAIN typingRooms :
          ( /\ last'.ev = "join-typing-room"
            /\ last'.ok
            /\ last'.c = c
            /\ last'.roomId = r
            /\ IsParticipant(typingRooms, r, c) )
          => /\ IsParticipant(typingRooms', r, c)
             /\ LET u == ParticipantIn(typingRooms, r, c)
                    v == ParticipantIn(typingRooms', r, c)
                IN /\ v.score = u.score
                   /\ v.typedLength = u.typedLength
                   /\ v.correctChars = u.correctChars
                   /\ v.flags = u.flags
                   /\ v.isFlagged = u.isFlagged
                   /\ v.isCompleted = u.isCompleted
                   /\ v.completionTime = u.completionTime
                   /\ v.startedAt = u.startedAt
                   /\ v.expiresAt = u.expiresAt
                   /\ v.isTimeUp = u.isTimeUp
                   /\ [v EXCEPT !.username = u.username, !.lastUpdateAt = u.lastUpdateAt] = u
      ]_vars

C15_RejoinedWithNegativeScore ==
    /\ last.ev = "join-typing-room"
    /\ last.ok
    /\ IsParticipant(typingRooms, last.roomId, last.c)
    /\ LET u == ParticipantIn(typingRooms, last.roomId, last.c) IN
          /\ u.score < 0
          /\ u.flags # <<>>
          /\ u.startedAt # 0
          /\ u.lastUpdateAt > u.startedAt

\* C16: a leave-typing-room or disconnect of a connection removes it from the
\* participants and voice participants of every room it is a participant of;
\* a room left without participants is deleted, a room with participants left
\* stays and its leaderboard, without the leaver, goes to the remaining
\* members; no step deletes a room that keeps a participant.
C16_LeaveRemovesAndDeletesWhenEmpty ==
    [][ /\ \A c \in Conns : \A r \in DOMAIN typingRooms :
             ( /\ last'.ev \in {"leave-typing-room", "disconnect"}
               /\ last'.c = c
               /\ <<typingRooms, typingSocketRoomMap, connected>>'
                     # <<typingRooms, typingSocketRoomMap, connected>>
               /\ Has(typingRooms[r].users, c) )
             => LET rest == Remove(typingRooms[r].users, c) IN
                IF rest = <<>>
                THEN r \notin DOMAIN typingRooms'
                ELSE /\ r \in DOMAIN typingRooms'
                     /\ typingRooms'[r].users = rest
                     /\ ~Has(typingRooms'[r].voiceParticipants, c)
                     /\ \E i \in MessagesIn(out', {"leaderboard-update"}) :
                           /\ out'[i].body.roomId = r
                           /\ Len(out'[i].body.leaderboard) = Len(rest)
                           /\ \A k \in 1..Len(rest) :
                                 rest[k].socketId \in connected' => rest[k].socketId \in out'[i].to
        /\ \A r \in DOMAIN typingRooms :
             (r \notin DOMAIN typingRooms' /\ last'.ev \in {"leave-typing-room", "disconnect"})
             => Remove(typingRooms[r].users, last'.c) = <<>>
      ]_vars

\* C17: once every connection has disconnected and the disconnect handlers
\* have finished, no typing room with a participant is left.
C17_NoRoomOutlivesItsMembers ==
    (connected = {} /\ Quiescent) =>
        \A r \in DOMAIN typingRooms : typingRooms[r].users = <<>>

\* C18: after a draw, shape-draw, arrow-draw or clear-canvas from a connection
\* bound to canvas room R, the event went, once, to exactly the other connected
\* connections bound to R, carrying the sender's id as socketId; from a
\* connection bound to no room it went to no one.
C18_DrawReachesTheRoomOnly ==
    last.ev \in RoomEvents \cup {"clear-canvas"} =>
        IF last.ok
        THEN /\ Len(out) = 1
             /\ out[1].ev = last.ev
             /\ out[1].body.socketId = last.c
             /\ out[1].to = { d \in connected \ {last.c} :
                                MapGet(socketRoomMap, d) = last.roomId }
        ELSE out = <<>>

\* A participant that has not started: no clock, no flags, no score, neither
\* completed nor timed out.
Waiting(u) ==
    /\ u.startedAt = 0
    /\ u.expiresAt = 0
    /\ u.flags = <<>>
    /\ ~u.isFlagged
    /\ ~u.isCompleted
    /\ ~u.isTimeUp
    /\ u.score = 0

\* C19 (amended): a join-typing-room as "Bo" is rejected with
\* typing-room-error and changes nothing, one as "bob" is accepted.  A
\* participant whose update carries the whole prompt before its deadline is
\* completed at that time with the prompt's length as score and heads the
\* leaderboard.  A participant that has sent no update is Waiting after every
\* step that keeps it, however far the clock moves.  A disconnected connection
\* is no participant and is on no leaderboard emitted from then on.
C19_RaceWithIdleParticipant ==
    [][ /\ (last'.ev = "join-typing-room" /\ JoinTypingRoom("s2", idA, Bo))
              => /\ Len(out') = 1
                 /\ out'[1].ev = "typing-room-error"
                 /\ out'[1].to = {"s2"}
                 /\ UNCHANGED <<typingRooms, typingSocketRoomMap>>
        /\ (last'.ev = "join-typing-room" /\ idA \in DOMAIN typingRooms
               /\ JoinTypingRoom("s2", idA, bob))
              => /\ IsParticipant(typingRooms', idA, "s2")
                 /\ ParticipantIn(typingRooms', idA, "s2").username = bob
        /\ \A c \in Conns : \A r \in DOMAIN typingRooms :
              ( /\ UpdateStepOf(c, r)
                /\ last'.ok
                /\ LET u == ParticipantIn(typingRooms, r, c) IN
                      u.startedAt = 0 \/ now < u.expiresAt
                /\ ParticipantIn(typingRooms', r, c).lastInputValue = typingRooms[r].text )
              => LET v == ParticipantIn(typingRooms', r, c) IN
                 /\ v.isCompleted
                 /\ ~v.isTimeUp
                 /\ v.completionTime = now
                 /\ v.score = Len(typingRooms[r].text)
                 /\ \E i \in MessagesIn(out', {"leaderboard-update"}) :
                       /\ out'[i].body.leaderboard[1].socketId = c
                       /\ out'[i].body.leaderboard[1].score = Len(typingRooms[r].text)
                       /\ out'[i].body.leaderboard[1].isCompleted
        /\ \A d \in Conns : \A r \in DOMAIN typingRooms' :
              ( /\ Has(typingRooms'[r].users, d)
                /\ ~(last'.ev = "typing-update" /\ last'.c = d)
                /\ IsParticipant(typingRooms, r, d) => Waiting(ParticipantIn(typingRooms, r, d)) )
              => Waiting(ParticipantIn(typingRooms', r, d))
        /\ \A d \in Conns \ connected' :
              /\ \A r \in DOMAIN typingRooms' : ~Has(typingRooms'[r].users, d)
              /\ \A i \in MessagesIn(out', {"leaderboard-update"}) :
                    \A k \in 1..Len(out'[i].body.leaderboard) :
                       out'[i].body.leaderboard[k].socketId # d
      ]_vars

C19_AnnDoneBobStillWaiting ==
    /\ IsParticipant(typingRooms, idA, "s1")
    /\ IsParticipant(typingRooms, idA, "s2")
    /\ ParticipantIn(typingRooms, idA, "s1").isCompleted
    /\ ParticipantIn(typingRooms, idA, "s1").score = 3
    /\ ParticipantIn(typingRooms, idA, "s2").username = bob
    /\ Waiting(ParticipantIn(typingRooms, idA, "s2"))
    /\ now > ParticipantIn(typingRooms, idA, "s2").lastUpdateAt + TYPING_TIME_LIMIT_MS

\* C19 as stated: a join-typing-room as "Bo" for an existing room is accepted.
C19_BoIsAccepted ==
    [][ (last'.ev = "join-typing-room" /\ idA \in DOMAIN typingRooms
            /\ JoinTypingRoom("s2", idA, Bo))
        => /\ IsParticipant(typingRooms', idA, "s2")
           /\ ParticipantIn(typingRooms', idA, "s2").username = Bo
      ]_vars

\* The canvas rooms whose durable users set holds connection c.
MemberOf(c) == { r \in DOMAIN dbRooms : c \in Range(dbRooms[r].users) }
\* The canvas rooms whose broadcasts reach connection c.
ListensTo(c) == { r \in generateRoomId : Canvas(r) \in ioRooms[c] }

\* C20: when no join-room handler is waiting for the store any more, a
\* connected connection is in the users set of at most one room, its registry
\* binding names that room, and it receives the broadcasts of that room only.
C20_OverlappingJoinsEndInOneRoom ==
    Quiescent =>
        \A c \in connected :
            /\ Cardinality(MemberOf(c)) <= 1
            /\ \A r \in MemberOf(c) : MapGet(socketRoomMap, c) = r
            /\ \A r \in ListensTo(c) : MapGet(socketRoomMap, c) = r

\* C21: once all handlers have finished, a connection that has disconnected is
\* in no room's durable users set and has no registry binding.
C21_GoneConnectionLeavesNoTrace ==
    Quiescent =>
        \A c \in Conns \ connected :
            /\ { r \in DOMAIN dbRooms : c \in Range(dbRooms[r].users) } = {}
            /\ c \notin DOMAIN socketRoomMap

\* C22: once all handlers have finished, every connected connection that is
\* bound to a canvas room is bound to a room whose record exists.
C22_BoundRoomHasItsRecord ==
    Quiescent =>
        \A c \in connected :
            c \in DOMAIN socketRoomMap => socketRoomMap[c] \in DOMAIN dbRooms

\* C23: a typing room creation whose generated id is the id of a room already in
\* the in-memory map leaves that room, its prompt and its participants intact.
C23_CreationKeepsExistingRoom ==
    [][\A roomId \in generateRoomId, text \in typingTexts :
          (roomId \in DOMAIN typingRooms /\ CreateTypingRoom(roomId, text)) =>
              /\ roomId \in DOMAIN typingRooms'
              /\ typingRooms'[roomId] = typingRooms[roomId]]_vars

\* C24: a canvas room creation generates at most CREATE_ATTEMPTS ids; a record
\* is created only under an id no record has, and no existing record is
\* replaced; a creation whose last attempt collides too answers 500 and creates
\* nothing; and a 201 answer is given only by the step that added the record it
\* names, so two concurrent creations never both own one roomId.
C24_CreationIsBoundedAndUnique ==
    [][/\ \A i \in 1..Len(tasks') :
             tasks'[i].kind = "create" => tasks'[i].attempt < CREATE_ATTEMPTS
       /\ \A r \in DOMAIN dbRooms : r \in DOMAIN dbRooms' /\ dbRooms'[r] = dbRooms[r]
       /\ \A i \in 1..Len(tasks), nextCandidate \in generateRoomId :
             ( /\ StoreFindOne(i, nextCandidate)
               /\ tasks[i].attempt = CREATE_ATTEMPTS - 1
               /\ tasks[i].room \in DOMAIN dbRooms )
             => /\ out' = <<HttpReply(500, <<>>)>>
                /\ dbRooms' = dbRooms
                /\ Len(tasks') = Len(tasks) - 1
       /\ \A r \in generateRoomId :
             (out' = <<HttpReply(201, r)>>) <=> (r \in DOMAIN dbRooms' \ DOMAIN dbRooms)]_vars

\* C24 witness: a creation has just answered 500 because its fifth candidate was
\* taken as well, while another creation has made its record.
C24_AllAttemptsCollided ==
    /\ last.ev = "store-findOne"
    /\ ~last.ok
    /\ out = <<HttpReply(500, <<>>)>>
    /\ DOMAIN dbRooms = generateRoomId

\* C25: a join-voice from a connection that is a participant of no existing
\* typing room is answered by one voice-error sent to the requester alone, and
\* changes no room: no voice participant is added and nothing is broadcast.
C25_VoiceNeedsMembership ==
    [][\A c \in Conns :
          (ParticipantRooms(c) = {} /\ JoinTypingVoice(c)) =>
              /\ Len(out') = 1
              /\ out'[1].ev = "voice-error"
              /\ out'[1].to = {c}
              /\ typingRooms' = typingRooms]_vars

\* C25 witness: a connection still bound to a room that was made again without
\* it has asked for voice and was refused, while the other connection is a
\* participant of that room.
C25_StaleBindingRefused ==
    /\ last.ev = "join-voice"
    /\ ~last.ok
    /\ last.c \in DOMAIN typingSocketRoomMap
    /\ ParticipantRooms(last.c) = {}
    /\ \E d \in Conns \ {last.c} :
          typingSocketRoomMap[last.c] \in ParticipantRooms(d)
    /\ Len(out) = 1 /\ out[1].ev = "voice-error" /\ out[1].to = {last.c}

\* C26: for a participant that is in a room before and after a step, every flag
\* it had is still there, isFlagged does not go back from true to false, and no
\* flag kind is listed twice.
C26_FlagsOnlyGrow ==
    [][\A r \in DOMAIN typingRooms \cap DOMAIN typingRooms', c \in Conns :
          (Has(typingRooms[r].users, c) /\ Has(typingRooms'[r].users, c)) =>
              LET before == Get(typingRooms[r].users, c)
                  after == Get(typingRooms'[r].users, c)
              IN /\ Range(before.flags) \subseteq Range(after.flags)
                 /\ before.isFlagged => after.isFlagged
                 /\ \A i, j \in 1..Len(after.flags) :
                       after.flags[i] = after.flags[j] => i = j]_vars

\* C26 witness: a participant carrying both flag kinds has just joined its room
\* again under another name while in voice, and still carries both.
C26_FlaggedParticipantRejoined ==
    /\ last.ev = "join-typing-room"
    /\ last.ok
    /\ Has(typingRooms[idA].users, "s1")
    /\ Has(typingRooms[idA].voiceParticipants, "s1")
    /\ LET user == Get(typingRooms[idA].users, "s1") IN
          /\ Range(user.flags) = {"paste-detected", "speed-warning"}
          /\ user.isFlagged
          /\ user.username = bob

\* C27: every participant of every room has 0 <= correctChars <= typedLength <=
\* prompt length + INPUT_SLACK and score = 2 * correctChars - typedLength, so its
\* score exceeds neither its typedLength nor the prompt length.
C27_CountsAndScoreBounded ==
    \A r \in DOMAIN typingRooms :
        \A i \in 1..Len(typingRooms[r].users) :
            LET user == typingRooms[r].users[i]
                promptLength == Len(typingRooms[r].text)
            IN /\ 0 <= user.correctChars
               /\ user.correctChars <= user.typedLength
               /\ user.typedLength <= promptLength + INPUT_SLACK
               /\ user.score = 2 * user.correctChars - user.typedLength
               /\ user.score <= user.typedLength
               /\ user.score <= promptLength

\* C27 witness: an input longer than the clamp was cut to prompt length +
\* INPUT_SLACK characters and left the participant with a negative score.
C27_ClampedInputScoredNegative ==
    /\ last.ev = "typing-update"
    /\ last.ok
    /\ \E r \in DOMAIN typingRooms :
          /\ Has(typingRooms[r].users, last.c)
          /\ LET user == Get(typingRooms[r].users, last.c) IN
                /\ user.typedLength = Len(typingRooms[r].text) + INPUT_SLACK
                /\ user.score = -user.typedLength

\* C28: an accepted typing-update (of a participant that is neither completed
\* nor timed out) completes the participant exactly when its clamped input is at
\* least as long as the non-empty prompt, whatever characters it holds; that step
\* sets completionTime to the current time and emits one user-finished carrying
\* that time to the members of the room; user-finished is emitted by no other
\* step, and a completed participant that stays keeps isCompleted and its
\* completionTime.
C28_CompletedOnceAtFullLength ==
    [][/\ \A c \in Conns, payload \in Keystrokes : \A r \in DOMAIN typingRooms :
            ( /\ UpdateStepOf(c, r)
              /\ ~IsTerminal(ParticipantIn(typingRooms, r, c))
              /\ TypingUpdate(c, payload) )
            => LET text == typingRooms[r].text
                   reaches == Len(Clamp(text, payload.value)) >= Len(text) /\ Len(text) > 0
                   after == ParticipantIn(typingRooms', r, c)
                   finished == MessagesIn(out', {"user-finished"})
               IN /\ after.isCompleted <=> reaches
                  /\ reaches =>
                        /\ after.completionTime = now
                        /\ Cardinality(finished) = 1
                        /\ \A i \in finished :
                              /\ out'[i].body.completionTime = now
                              /\ out'[i].body.username = after.username
                              /\ \A d \in connected :
                                    Has(typingRooms'[r].users, d) => d \in out'[i].to
                  /\ ~reaches => finished = {} /\ after.completionTime = 0
       /\ MessagesIn(out', {"user-finished"}) # {}
             => /\ last'.ev = "typing-update"
                /\ IsParticipant(typingRooms, last'.roomId, last'.c)
                /\ ~ParticipantIn(typingRooms, last'.roomId, last'.c).isCompleted
                /\ ParticipantIn(typingRooms', last'.roomId, last'.c).isCompleted
       /\ \A c \in Conns : \A r \in DOMAIN typingRooms :
            ( /\ IsParticipant(typingRooms, r, c)
              /\ IsParticipant(typingRooms', r, c)
              /\ ParticipantIn(typingRooms, r, c).isCompleted )
            => /\ ParticipantIn(typingRooms', r, c).isCompleted
               /\ ParticipantIn(typingRooms', r, c).completionTime =
                     ParticipantIn(typingRooms, r, c).completionTime
      ]_vars

\* C28 witness: a participant has just completed by typing a wrong word of the
\* prompt's length, after an earlier shorter update, with another member in the
\* room to hear user-finished.
C28_CompletedWithWrongWord ==
    /\ last.ev = "typing-update"
    /\ last.ok
    /\ IsParticipant(typingRooms, last.roomId, last.c)
    /\ LET user == ParticipantIn(typingRooms, last.roomId, last.c) IN
          /\ user.isCompleted
          /\ user.completionTime = now
          /\ user.startedAt < now
          /\ user.lastInputValue = cap
    /\ \E i \in MessagesIn(out, {"user-finished"}) : out[i].to = Conns

\* C29: after an accepted typing-update the participant carries paste-detected
\* exactly when it carried it before or, with d the clamped input length minus
\* the previous input length and t the time since its previous update or join,
\* (a) isPaste is set and d >= 10, or (b) isPaste is not set, d >= 10 and
\* t < 400 ms, or (c) the payload's delta is >= 10.
C29_PasteDetectedIffRule ==
    [][\A c \in Conns, payload \in FlagPayloads : \A r \in DOMAIN typingRooms :
          ( /\ UpdateStepOf(c, r)
            /\ ~IsTerminal(ParticipantIn(typingRooms, r, c))
            /\ TypingUpdate(c, payload) )
          => LET before == ParticipantIn(typingRooms, r, c)
                 after == ParticipantIn(typingRooms', r, c)
                 d == Len(Clamp(typingRooms[r].text, payload.value)) - before.lastInputLength
                 t == now - before.lastUpdateAt
             IN ("paste-detected" \in Range(after.flags))
                   <=> \/ "paste-detected" \in Range(before.flags)
                       \/ payload.isPaste /\ d >= 10
                       \/ ~payload.isPaste /\ d >= 10 /\ t < 400
                       \/ payload.delta >= 10]_vars

\* C29 witness: an update that took the input to ten or more characters in the
\* millisecond of the join has just earned the participant its first flag,
\* paste-detected, and no other.
C29_BurstFlagged ==
    /\ last.ev = "typing-update"
    /\ last.ok
    /\ IsParticipant(typingRooms, last.roomId, last.c)
    /\ LET user == ParticipantIn(typingRooms, last.roomId, last.c) IN
          /\ user.flags = <<"paste-detected">>
          /\ user.lastInputLength >= 10
          /\ user.startedAt = now

\* C30: after an accepted typing-update the participant carries speed-warning
\* exactly when it carried it before or the time t since its previous update or
\* join is positive and |d| * 1000 > 15 * t, d being the signed change of the
\* input length.
C30_SpeedWarningIffRule ==
    [][\A c \in Conns, payload \in SpeedPayloads : \A r \in DOMAIN typingRooms :
          ( /\ UpdateStepOf(c, r)
            /\ ~IsTerminal(ParticipantIn(typingRooms, r, c))
            /\ TypingUpdate(c, payload) )
          => LET before == ParticipantIn(typingRooms, r, c)
                 after == ParticipantIn(typingRooms', r, c)
                 d == Len(Clamp(typingRooms[r].text, payload.value)) - before.lastInputLength
                 t == now - before.lastUpdateAt
             IN ("speed-warning" \in Range(after.flags))
                   <=> \/ "speed-warning" \in Range(before.flags)
                       \/ t > 0 /\ Abs(d) * 1000 > 15 * t]_vars

\* C31: the record of a participant that is in its room before and after a step
\* differs only when the step handled a typing-update or a join-typing-room of
\* the participant's own connection; the events of other connections and the
\* passing of time leave every field as it was, past expiresAt too.
C31_OnlyOwnEventsChangeRecord ==
    [][\A c \in Conns : \A r \in DOMAIN typingRooms :
          ( /\ IsParticipant(typingRooms, r, c)
            /\ IsParticipant(typingRooms', r, c)
            /\ ParticipantIn(typingRooms', r, c) # ParticipantIn(typingRooms, r, c) )
          => /\ last'.ev \in {"typing-update", "join-typing-room"}
             /\ last'.c = c]_vars

\* C31 witness: a participant that started typing is past its expiresAt, the
\* other connection has just joined the room, and the participant is still
\* neither completed nor timed out.
C31_StillTypingPastDeadline ==
    /\ last.ev = "join-typing-room"
    /\ last.ok
    /\ last.c = "s2"
    /\ IsParticipant(typingRooms, last.roomId, "s1")
    /\ LET user == ParticipantIn(typingRooms, last.roomId, "s1") IN
          /\ user.startedAt # 0
          /\ now > user.expiresAt
          /\ ~user.isCompleted
          /\ ~user.isTimeUp

\* The emissions o hold the state of room r as it is in rooms: a
\* typing-users-update with the number of participants and a leaderboard-update
\* with one row for each participant, carrying its name, score and state, both
\* sent to every connected participant.
RoomStateBroadcast(o, rooms, conn, r) ==
    /\ \E i \in MessagesIn(o, {"typing-users-update"}) :
          /\ o[i].body.roomId = r
          /\ o[i].body.count = Len(rooms[r].users)
          /\ \A d \in conn : Has(rooms[r].users, d) => d \in o[i].to
    /\ \E i \in MessagesIn(o, {"leaderboard-update"}) :
          LET leaderboard == o[i].body.leaderboard IN
          /\ o[i].body.roomId = r
          /\ Len(leaderboard) = Len(rooms[r].users)
          /\ \A d \in conn : Has(rooms[r].users, d) => d \in o[i].to
          /\ \A k \in 1..Len(rooms[r].users) :
                LET user == rooms[r].users[k]
                    rows == { j \in 1..Len(leaderboard) :
                                leaderboard[j].socketId = user.socketId }
                IN /\ Cardinality(rows) = 1
                   /\ \A j \in rows :
                         /\ leaderboard[j].username = user.username
                         /\ leaderboard[j].score = user.score
                         /\ leaderboard[j].isCompleted = user.isCompleted
                         /\ leaderboard[j].completionTime = user.completionTime
                         /\ leaderboard[j].isTimeUp = user.isTimeUp

\* C32: the step of an accepted join-typing-room, of an accepted typing-update
\* and of a leave-typing-room or disconnect after which the room is still there
\* emits the room's state as it is after the step: the participant count and a
\* leaderboard with every participant once; an ignored typing-update emits
\* nothing.
C32_MutationBroadcastsRoomState ==
    [][/\ (last'.ev \in {"join-typing-room", "typing-update"} /\ last'.ok)
             => RoomStateBroadcast(out', typingRooms', connected', last'.roomId)
       /\ \A r \in DOMAIN typingRooms \cap DOMAIN typingRooms' :
             ( /\ last'.ev \in {"leave-typing-room", "disconnect"}
               /\ last'.c \notin DOMAIN socketRoomMap
               /\ MapGet(typingSocketRoomMap, last'.c) = r )
             => RoomStateBroadcast(out', typingRooms', connected', r)
       /\ (last'.ev = "typing-update" /\ ~last'.ok) => out' = <<>>]_vars

\* C32 witness: one of two participants has just left and the one who stays,
\* already completed, was sent a count of one and a leaderboard of one row.
C32_LeaveBroadcastToTheOneLeft ==
    /\ last.ev = "leave-typing-room"
    /\ last.ok
    /\ last.roomId \in DOMAIN typingRooms
    /\ Len(typingRooms[last.roomId].users) = 1
    /\ typingRooms[last.roomId].users[1].isCompleted
    /\ \E i \in MessagesIn(out, {"typing-users-update"}) :
          out[i].body.count = 1 /\ out[i].to = Conns \ {last.c}
    /\ \E i \in MessagesIn(out, {"leaderboard-update"}) :
          Len(out[i].body.leaderboard) = 1 /\ out[i].body.leaderboard[1].isCompleted

\* C33: the step that accepts a join-room of connection c for room R leaves c in
\* R's users exactly once next to the members R had, sends existing-users to c
\* listing exactly the other members, sends user-joined to the other members,
\* and sends a user-count-update whose count is the size of R's users.
C33_AcceptedJoinRoom ==
    [][\A i \in 1..Len(tasks) :
          (StoreAdd(i) /\ tasks[i].target \in DOMAIN dbRooms) =>
              LET c == tasks[i].c
                  R == tasks[i].target
                  users == dbRooms'[R].users
                  others == Range(users) \ {c}
              IN /\ Range(users) = Range(dbRooms[R].users) \cup {c}
                 /\ Cardinality({ k \in 1..Len(users) : users[k] = c }) = 1
                 /\ Len(users) = Cardinality(Range(users))
                 /\ socketRoomMap'[c] = R
                 /\ \E m \in MessagesIn(out', {"existing-users"}) :
                       /\ out'[m].to = {c}
                       /\ out'[m].body.roomId = R
                       /\ Range(out'[m].body.users) = others
                       /\ Len(out'[m].body.users) = Cardinality(others)
                 /\ \E m \in MessagesIn(out', {"user-joined"}) :
                       /\ out'[m].to = others
                       /\ out'[m].body.socketId = c
                 /\ \E m \in MessagesIn(out', {"user-count-update"}) :
                       /\ out'[m].body.count = Cardinality(Range(users))
                       /\ out'[m].to = Range(users)]_vars

\* C33 witness: a member that was in the room before the other one came has
\* just joined the same room a second time; it is listed once and was sent the
\* other member.
C33_RepeatedJoinListedOnce ==
    /\ last.ev = "store-add"
    /\ last.ok
    /\ last.roomId \in DOMAIN dbRooms
    /\ Len(dbRooms[last.roomId].users) = 2
    /\ dbRooms[last.roomId].users[1] = last.c
    /\ \E m \in MessagesIn(out, {"existing-users"}) : Len(out[m].body.users) = 1

\* C34: in every room every connection with a voice entry is a participant; a
\* connection gains a voice entry only in the step of its own accepted
\* join-voice; and after the step of its leave-voice, leave-typing-room or
\* disconnect it has a voice entry in no room.
C34_VoiceEntryOnlyWhileEnabled ==
    [][/\ \A r \in DOMAIN typingRooms' : \A c \in Conns :
             Has(typingRooms'[r].voiceParticipants, c) => Has(typingRooms'[r].users, c)
       /\ \A r \in DOMAIN typingRooms' : \A c \in Conns :
             ( /\ Has(typingRooms'[r].voiceParticipants, c)
               /\ ~(r \in DOMAIN typingRooms /\ Has(typingRooms[r].voiceParticipants, c)) )
             => last'.ev = "join-voice" /\ last'.ok /\ last'.c = c
       /\ \A r \in DOMAIN typingRooms' :
             last'.ev \in {"leave-voice", "leave-typing-room", "disconnect"}
                => ~Has(typingRooms'[r].voiceParticipants, last'.c)]_vars

\* The connected participants of room r.
MembersOf(rooms, conn, r) == { d \in conn : Has(rooms[r].users, d) }
\* The room a leave of connection c is looked up in, and whether c has a voice
\* entry there.
VoiceEnabledIn(c, r) ==
    /\ MapGet(typingSocketRoomMap, c) = r
    /\ r \in DOMAIN typingRooms
    /\ Has(typingRooms[r].voiceParticipants, c)

\* C35: a leave-typing-room or disconnect of a participant with a voice entry
\* removes the entry and emits voice-user-left to all members of the room, the
\* leaver included while it is connected; a leave-voice removes the entry and
\* emits the notice to the other members and not to the sender; a leave of a
\* connection without voice entry emits no voice-user-left.
C35_VoiceLeftNotice ==
    [][\A c \in Conns :
          (last'.ev \in {"leave-typing-room", "disconnect", "leave-voice"} /\ last'.c = c) =>
             /\ \A r \in DOMAIN typingRooms :
                   VoiceEnabledIn(c, r) =>
                      /\ r \in DOMAIN typingRooms' => ~Has(typingRooms'[r].voiceParticipants, c)
                      /\ \E m \in MessagesIn(out', {"voice-user-left"}) :
                            /\ out'[m].body.socketId = c
                            /\ IF last'.ev = "leave-voice"
                               THEN /\ MembersOf(typingRooms, connected', r) \ {c} \subseteq out'[m].to
                                    /\ c \notin out'[m].to
                               ELSE MembersOf(typingRooms, connected', r) \subseteq out'[m].to
             /\ (~\E r \in DOMAIN typingRooms : VoiceEnabledIn(c, r))
                   => MessagesIn(out', {"voice-user-left"}) = {}]_vars

\* C36: no participant of a room whose prompt is empty is completed or has a
\* completion time, and every user-finished names a room with a non-empty
\* prompt.
C36_EmptyPromptNeverCompleted ==
    /\ \A r \in DOMAIN typingRooms :
          Len(typingRooms[r].text) = 0 =>
             \A i \in 1..Len(typingRooms[r].users) :
                /\ ~typingRooms[r].users[i].isCompleted
                /\ typingRooms[r].users[i].completionTime = 0
    /\ \A m \in MessagesIn(out, {"user-finished"}) :
          /\ out[m].body.roomId \in DOMAIN typingRooms
          /\ Len(typingRooms[out[m].body.roomId].text) > 0

\* C36 witness: a participant of a room with an empty prompt has just had an
\* update accepted that left it with INPUT_SLACK typed characters, and it is
\* not completed.
C36_TypedIntoEmptyPrompt ==
    /\ last.ev = "typing-update"
    /\ last.ok
    /\ IsParticipant(typingRooms, last.roomId, last.c)
    /\ Len(typingRooms[last.roomId].text) = 0
    /\ ParticipantIn(typingRooms, last.roomId, last.c).typedLength = INPUT_SLACK
    /\ ~ParticipantIn(typingRooms, last.roomId, last.c).isCompleted

\* C37: no participant is both completed and timed out, and an update handled
\* at or after the participant's expiresAt neither completes it nor changes its
\* score.
C37_CompletedAndTimedOutExclusive ==
    [][/\ \A r \in DOMAIN typingRooms' : \A i \in 1..Len(typingRooms'[r].users) :
             ~(typingRooms'[r].users[i].isCompleted /\ typingRooms'[r].users[i].isTimeUp)
       /\ \A c \in Conns : \A r \in DOMAIN typingRooms :
             ( /\ UpdateStepOf(c, r)
               /\ ParticipantIn(typingRooms, r, c).startedAt # 0
               /\ now >= ParticipantIn(typingRooms, r, c).expiresAt
               /\ ~ParticipantIn(typingRooms, r, c).isCompleted )
             => /\ ~ParticipantIn(typingRooms', r, c).isCompleted
                /\ ParticipantIn(typingRooms', r, c).score =
                      ParticipantIn(typingRooms, r, c).score]_vars

\* The leave handlers of connection c that are in flight.
LeavesInFlight(tk, c) ==
    { i \in 1..Len(tk) : tk[i].c = c /\ tk[i].kind \in {"leave-room", "disconnect"} }

\* C38: when a connection's leave-room and disconnect overlap, one removal runs
\* for it: it never has two leave handlers in flight, a step emits at most one
\* user-left about it and only the step that ends its leave handler does; when
\* that handler ends the connection is in no users set, and the room's record is
\* there exactly when members remain.
C38_LeaveThenDisconnect ==
    [][\A c \in Conns :
          /\ Cardinality(LeavesInFlight(tasks', c)) <= 1
          /\ Cardinality({ m \in MessagesIn(out', {"user-left"}) :
                             out'[m].body.socketId = c }) <= 1
          /\ (\E m \in MessagesIn(out', {"user-left"}) : out'[m].body.socketId = c)
                => LeavesInFlight(tasks, c) # {} /\ LeavesInFlight(tasks', c) = {}
          /\ \A i \in LeavesInFlight(tasks, c) :
                LeavesInFlight(tasks', c) = {} =>
                   LET r == tasks[i].room IN
                   /\ \A x \in DOMAIN dbRooms' : c \notin Range(dbRooms'[x].users)
                   /\ r \in DOMAIN dbRooms' => dbRooms'[r].users # <<>>
                   /\ (r \in DOMAIN dbRooms /\ r \notin DOMAIN dbRooms')
                         => dbRooms[r].users = <<>>]_vars

\* C38 witness: a connection has sent leave-room and has disconnected; its
\* removal has emptied the room and the deletion of the record is still
\* pending.
C38_GoneWhileLeaving ==
    \E i \in 1..Len(tasks) :
        /\ tasks[i].kind = "leave-room"
        /\ tasks[i].pc = "delete"
        /\ tasks[i].c \notin connected
        /\ tasks[i].room \in DOMAIN dbRooms
        /\ dbRooms[tasks[i].room].users = <<>>

\* C39: a typing-voice-offer, typing-voice-answer or typing-voice-ice reaches a
\* connection only when the sender and that connection both have a voice entry
\* in one room.
C39_SignalsNeedVoiceEntries ==
    \A i \in Messages(TypingSignals) :
        \A t \in out[i].to :
            \E r \in DOMAIN typingRooms :
                /\ Has(typingRooms[r].voiceParticipants, last.c)
                /\ Has(typingRooms[r].voiceParticipants, t)

====
